---- MODULE Spec2Model ----
(***************************************************************************)
(* A model of the JSON part of the INI-JSON-XML-Parser library:            *)
(* JSONValue (the value tree), JSONParser (recursive descent parser and    *)
(* serializer) and JSONResult (dotted-path queries).                       *)
(*                                                                         *)
(* Text is a sequence of characters; a character is a one-character        *)
(* string.  Cursor positions are 0-based as in the source, so the          *)
(* character at cursor pos of a text s is s[pos + 1].                      *)
(***************************************************************************)
EXTENDS Integers, Sequences, FiniteSets, TLC

VARIABLES content, result, pc, call, ret, reparsed

vars == <<content, result, pc, call, ret, reparsed>>

(***************************************************************************)
(* Characters.                                                             *)
(***************************************************************************)
\* content[content.length()] of a std::string is the terminating '\0'.
NUL == "<NUL>"
\* '\b', which has no escape in a TLA+ string.
BS == "<BS>"

Digits == {"0", "1", "2", "3", "4", "5", "6", "7", "8", "9"}

isdigit(c) == c \in Digits

isspace(c) == c \in {" ", "\t", "\n", "\r", "\f", "<VT>"}

DigitVal(c) ==
    CASE c = "0" -> 0 [] c = "1" -> 1 [] c = "2" -> 2 [] c = "3" -> 3
      [] c = "4" -> 4 [] c = "5" -> 5 [] c = "6" -> 6 [] c = "7" -> 7
      [] c = "8" -> 8 [] c = "9" -> 9

DigitChar(d) == <<"0", "1", "2", "3", "4", "5", "6", "7", "8", "9">>[d + 1]

\* The character codes std::map<std::string, ...> orders its keys by.
CharCode(c) ==
    CASE c = NUL -> 0 [] c = BS -> 8 [] c = "\t" -> 9 [] c = "\n" -> 10
      [] c = "<VT>" -> 11 [] c = "\f" -> 12 [] c = "\r" -> 13
      [] c = " " -> 32 [] c = "\"" -> 34 [] c = "#" -> 35 [] c = "'" -> 39
      [] c = "+" -> 43 [] c = "," -> 44
      [] c = "-" -> 45 [] c = "." -> 46 [] c = "/" -> 47
      [] c \in Digits -> 48 + DigitVal(c)
      [] c = ":" -> 58 [] c = ";" -> 59 [] c = "=" -> 61 [] c = "E" -> 69
      [] c = "[" -> 91 [] c = "\\" -> 92
      [] c = "]" -> 93 [] c = "a" -> 97 [] c = "b" -> 98 [] c = "c" -> 99
      [] c = "d" -> 100 [] c = "e" -> 101 [] c = "f" -> 102 [] c = "l" -> 108
      [] c = "n" -> 110 [] c = "r" -> 114 [] c = "s" -> 115 [] c = "t" -> 116
      [] c = "u" -> 117 [] c = "x" -> 120 [] c = "{" -> 123 [] c = "}" -> 125

\* content[pos] of a const std::string&, defined for pos <= length().
CharAt(s, pos) == IF pos < Len(s) THEN s[pos + 1] ELSE NUL

\* s.substr(pos, n), for pos <= length().
\* substr that ignores the count and returns the text up to the end.
substr_to_end(s, pos, n) == SubSeq(s, pos + 1, Len(s))

substr(s, pos, n) ==
    LET last == IF pos + n < Len(s) THEN pos + n ELSE Len(s)
    IN  SubSeq(s, pos + 1, last)

\* std::string operator<, the order of the keys of a std::map.
RECURSIVE StrLess(_, _)
StrLess(a, b) ==
    IF b = <<>> THEN FALSE
    ELSE IF a = <<>> THEN TRUE
    ELSE IF CharCode(Head(a)) # CharCode(Head(b))
         THEN CharCode(Head(a)) < CharCode(Head(b))
         ELSE StrLess(Tail(a), Tail(b))

\* A text as one TLA+ string, as it stands in an error message.
RECURSIVE Text(_)
Text(s) == IF s = <<>> THEN "" ELSE Head(s) \o Text(Tail(s))

(***************************************************************************)
(* Numbers.  An int is a TLA+ integer in [INT_MIN, INT_MAX].  A double is  *)
(* the decimal it was converted from, normalised: [neg, mant, exp] stands  *)
(* for (-1)^neg * mant * 10^exp with mant not divisible by 10 (0 has exp   *)
(* 0).  Two short decimals (at most 15 significant digits, inside the      *)
(* double range) convert to the same double exactly when they are equal,   *)
(* so the normal form decides equality of the doubles the texts of this    *)
(* model produce.                                                          *)
(***************************************************************************)
INT_MAX == 2147483647
INT_MIN == -INT_MAX - 1

\* <cfloat> DBL_MAX_10_EXP and DBL_MIN_10_EXP: beyond them strtod reports ERANGE.
DBL_MAX_10_EXP == 308
DBL_MIN_10_EXP == -307

RECURSIVE Normalise(_, _)
Normalise(m, e) ==
    IF m = 0 THEN [mant |-> 0, exp |-> 0]
    ELSE IF m % 10 = 0 THEN Normalise(m \div 10, e + 1)
    ELSE [mant |-> m, exp |-> e]

Double(neg, m, e) ==
    LET n == Normalise(m, e) IN [neg |-> neg, mant |-> n.mant, exp |-> n.exp]

DZero == Double(FALSE, 0, 0)

RECURSIVE NumDigits(_)
NumDigits(m) == IF m < 10 THEN 1 ELSE 1 + NumDigits(m \div 10)

RECURSIVE Pow10(_)
Pow10(n) == IF n = 0 THEN 1 ELSE 10 * Pow10(n - 1)

\* static_cast<double>(int)
IntToDouble(i) == IF i < 0 THEN Double(TRUE, -i, 0) ELSE Double(FALSE, i, 0)

\* d != 0.0 (-0.0 compares equal to 0.0)
DoubleNonZero(d) == d.mant # 0

\* The value of a digit run, most significant digit first.
RECURSIVE DigitsValue(_)
DigitsValue(ds) ==
    IF ds = <<>> THEN 0
    ELSE 10 * DigitsValue(SubSeq(ds, 1, Len(ds) - 1)) + DigitVal(ds[Len(ds)])

\* The end of the run of digits of s that starts at 0-based position pos.
RECURSIVE DigitRunEnd(_, _)
DigitRunEnd(s, pos) ==
    IF pos < Len(s) /\ isdigit(s[pos + 1]) THEN DigitRunEnd(s, pos + 1) ELSE pos

\* The end of the run of white space of s that starts at pos.
RECURSIVE SpaceRunEnd(_, _)
SpaceRunEnd(s, pos) ==
    IF pos < Len(s) /\ isspace(s[pos + 1]) THEN SpaceRunEnd(s, pos + 1) ELSE pos

(***************************************************************************)
(* std::stoi and std::stod (base 10), as the parser and the coercions use  *)
(* them: leading white space is skipped, the longest prefix that is a      *)
(* number is converted and the rest of the text is ignored; no prefix      *)
(* throws std::invalid_argument, a value out of range std::out_of_range.   *)
(* The result is [ok, val]; ok = FALSE stands for either exception.  The   *)
(* texts of this model hold none of "inf", "nan" or a hexadecimal prefix.  *)
(***************************************************************************)
StripZeros(ds) ==
    LET nz == {i \in 1..Len(ds) : ds[i] # "0"}
    IN  IF nz = {} THEN <<>>
        ELSE SubSeq(ds, CHOOSE i \in nz : \A j \in nz : i <= j, Len(ds))

\* Does the magnitude written by the digit run ds fit an int of that sign?
FitsInt(neg, ds) ==
    LET sig == StripZeros(ds)
    IN  IF Len(sig) < 10 THEN TRUE
        ELSE IF Len(sig) > 10 THEN FALSE
        ELSE LET hi == DigitsValue(SubSeq(sig, 1, 9))
                 lo == DigitVal(sig[10])
             IN  hi < 214748364
                   \/ (hi = 214748364 /\ lo <= (IF neg THEN 8 ELSE 7))

\* IntOfDigits that gives the nearest int for a value out of range, as strtol
\* does.
IntOfDigits_saturates(neg, ds) ==
    IF ds = <<>> THEN [ok |-> FALSE, val |-> 0]
    ELSE IF ~FitsInt(neg, ds) THEN [ok |-> TRUE, val |-> IF neg THEN INT_MIN ELSE INT_MAX]
    ELSE IF neg /\ StripZeros(ds) = <<"2", "1", "4", "7", "4", "8", "3", "6", "4", "8">>
    THEN [ok |-> TRUE, val |-> INT_MIN]
    ELSE [ok |-> TRUE,
          val |-> (IF neg THEN -1 ELSE 1) * DigitsValue(StripZeros(ds))]

\* The digit run ds with its sign as an int: [ok, val].
IntOfDigits(neg, ds) ==
    IF ds = <<>> \/ ~FitsInt(neg, ds) THEN [ok |-> FALSE, val |-> 0]
    ELSE IF neg /\ StripZeros(ds) = <<"2", "1", "4", "7", "4", "8", "3", "6", "4", "8">>
    THEN [ok |-> TRUE, val |-> INT_MIN]
    ELSE [ok |-> TRUE,
          val |-> (IF neg THEN -1 ELSE 1) * DigitsValue(StripZeros(ds))]

\* The cursor after an optional sign at pos.
SignEnd(str, pos) == IF CharAt(str, pos) \in {"-", "+"} THEN pos + 1 ELSE pos

\* The digits of the run that starts at pos.
DigitRun(str, pos) == SubSeq(str, pos + 1, DigitRunEnd(str, pos))

\* stoi, with the cursor p0 after the leading white space.
stoi_at(str, p0) ==
    IntOfDigits(CharAt(str, p0) = "-", DigitRun(str, SignEnd(str, p0)))

stoi(str) == stoi_at(str, SpaceRunEnd(str, 0))

\* The value of an exponent part at pos ("e" or "E", an optional sign, digits),
\* 0 when there is none.  It counts only with at least one digit; an exponent
\* of more than four digits is out of range whatever the mantissa.
ExponentValue(neg, ds) ==
    IF Len(StripZeros(ds)) > 4 THEN (IF neg THEN -99999 ELSE 99999)
    ELSE (IF neg THEN -1 ELSE 1) * DigitsValue(StripZeros(ds))

ExponentAt(str, pos) ==
    IF CharAt(str, pos) \in {"e", "E"}
    THEN ExponentValue(CharAt(str, pos + 1) = "-",
                       DigitRun(str, SignEnd(str, pos + 1)))
    ELSE 0

\* The digits ds without their trailing zeros.
StripTrailingZeros(ds) ==
    LET nz == {i \in 1..Len(ds) : ds[i] # "0"}
    IN  IF nz = {} THEN <<>>
        ELSE SubSeq(ds, 1, CHOOSE i \in nz : \A j \in nz : j <= i)

\* The double mant * 10^exp of that sign, or the range error.
DoubleInRange(neg, n) ==
    IF n.mant # 0 /\ (NumDigits(n.mant) + n.exp - 1 > DBL_MAX_10_EXP
                      \/ NumDigits(n.mant) + n.exp - 1 < DBL_MIN_10_EXP)
    THEN [ok |-> FALSE, val |-> DZero]
    ELSE [ok |-> TRUE, val |-> [neg |-> neg, mant |-> n.mant, exp |-> n.exp]]

\* The double written by the digits mdig (no leading zeros) times 10^exp.
DoubleOfDigits(neg, mdig, exp) ==
    DoubleInRange(neg, Normalise(DigitsValue(StripTrailingZeros(mdig)),
                                 exp + Len(mdig) - Len(StripTrailingZeros(mdig))))

\* The mantissa is the digits ints before and frac after the point (one of
\* them at least) and ends at pos.
stod_mantissa(str, neg, ints, frac, pos) ==
    IF ints = <<>> /\ frac = <<>> THEN [ok |-> FALSE, val |-> DZero]
    ELSE DoubleOfDigits(neg, StripZeros(ints \o frac),
                        ExponentAt(str, pos) - Len(frac))

\* stod, with the cursor p1 after the sign and p2 after the digits before
\* the point.
stod_point(str, neg, p1, p2) ==
    IF CharAt(str, p2) = "."
    THEN stod_mantissa(str, neg, SubSeq(str, p1 + 1, p2), DigitRun(str, p2 + 1),
                       DigitRunEnd(str, p2 + 1))
    ELSE stod_mantissa(str, neg, SubSeq(str, p1 + 1, p2), <<>>, p2)

\* stod, with the cursor p0 after the leading white space.
stod_at(str, p0) ==
    stod_point(str, CharAt(str, p0) = "-", SignEnd(str, p0),
               DigitRunEnd(str, SignEnd(str, p0)))

stod(str) == stod_at(str, SpaceRunEnd(str, 0))

(***************************************************************************)
(* std::to_string(int) and std::to_string(double) ("%f": six digits after  *)
(* the point).                                                             *)
(***************************************************************************)
RECURSIVE NatText(_)
NatText(n) ==
    IF n < 10 THEN <<DigitChar(n)>>
    ELSE Append(NatText(n \div 10), DigitChar(n % 10))

IntText(i) ==
    IF i = INT_MIN
    THEN <<"-", "2", "1", "4", "7", "4", "8", "3", "6", "4", "8">>
    ELSE IF i < 0 THEN <<"-">> \o NatText(-i) ELSE NatText(i)

Zeros(n) == [i \in 1..n |-> "0"]

\* n written with at least w digits
PadText(n, w) ==
    LET t == NatText(n) IN IF Len(t) < w THEN Zeros(w - Len(t)) \o t ELSE t

\* Digits kept after the point by "%f".
FracDigits == 6

\* A double below 10^-6 in magnitude with more than six decimals is rounded to
\* the nearest sixth decimal; a tie is decided by the binary value, to even here.
DoubleText(d) ==
    LET sign == IF d.neg THEN <<"-">> ELSE <<>>
        k    == -d.exp
    IN  IF d.exp >= 0
        THEN sign \o (IF d.mant = 0 THEN <<"0">> ELSE NatText(d.mant) \o Zeros(d.exp))
                  \o <<".">> \o Zeros(FracDigits)
        ELSE IF k <= FracDigits
        THEN sign \o NatText(d.mant \div Pow10(k)) \o <<".">>
                  \o PadText(d.mant % Pow10(k), k) \o Zeros(FracDigits - k)
        ELSE IF NumDigits(d.mant) < k - FracDigits
        THEN sign \o <<"0", ".">> \o Zeros(FracDigits)
        ELSE LET cut == Pow10(k - FracDigits)
                 q   == d.mant \div cut
                 r   == d.mant % cut
                 up  == 2 * r > cut \/ (2 * r = cut /\ q % 2 = 1)
                 v   == IF up THEN q + 1 ELSE q
             IN  sign \o NatText(v \div Pow10(FracDigits)) \o <<".">>
                      \o PadText(v % Pow10(FracDigits), FracDigits)

\* static_cast<int>(double): truncation toward zero when the truncated value
\* fits an int; otherwise the conversion is undefined behaviour and may give
\* any int (the set names the outcomes seen from compilers: INT_MIN, 0, INT_MAX).
\* A mantissa of this model is below 2^31, so only a positive exponent overflows.
DoubleToInt(d) ==
    LET sgn == IF d.neg THEN -1 ELSE 1
        n   == NumDigits(d.mant) + d.exp
    IN  IF d.mant = 0 THEN {0}
        ELSE IF -d.exp >= NumDigits(d.mant) THEN {0}
        ELSE IF d.exp <= 0 THEN {sgn * (d.mant \div Pow10(-d.exp))}
        ELSE IF n <= 9 THEN {sgn * d.mant * Pow10(d.exp)}
        ELSE IF n = 10 /\ d.mant * Pow10(d.exp - 1) <= 214748364
             THEN {sgn * d.mant * Pow10(d.exp)}
        ELSE {INT_MIN, 0, INT_MAX}

(***************************************************************************)
(* JSONValue: one record carrying the tag and every payload, as the class  *)
(* does.  object_values_ is a function from keys to values (std::map),     *)
(* array_values_ a sequence (std::vector).                                 *)
(***************************************************************************)
Types == {"String", "Number", "Integer", "Boolean", "Null", "Object", "Array"}

\* An empty std::map.
EmptyMap == [k \in {} |-> 0]

\* JSONValue()
JSONValue ==
    [type_ |-> "Null", string_value_ |-> <<>>, int_value_ |-> 0,
     double_value_ |-> DZero, bool_value_ |-> FALSE,
     object_values_ |-> EmptyMap, array_values_ |-> <<>>]

\* JSONValue(const std::string&)
JSONValue_string(value) ==
    [JSONValue EXCEPT !.type_ = "String", !.string_value_ = value]

\* JSONValue(int)
JSONValue_int(value) ==
    [JSONValue EXCEPT !.type_ = "Integer", !.int_value_ = value]

\* JSONValue(double)
JSONValue_double(value) ==
    [JSONValue EXCEPT !.type_ = "Number", !.double_value_ = value]

\* JSONValue(bool)
JSONValue_bool(value) ==
    [JSONValue EXCEPT !.type_ = "Boolean", !.bool_value_ = value]

get_type(v) == v.type_

as_string(v) ==
    CASE v.type_ = "String"  -> v.string_value_
      [] v.type_ = "Integer" -> IntText(v.int_value_)
      [] v.type_ = "Number"  -> DoubleText(v.double_value_)
      [] v.type_ = "Boolean" -> IF v.bool_value_ THEN <<"t", "r", "u", "e">>
                                ELSE <<"f", "a", "l", "s", "e">>
      [] v.type_ = "Null"    -> <<"n", "u", "l", "l">>
      [] OTHER               -> <<>>

\* The values as_int may return: one, except where the conversion of the
\* double is undefined.
as_int(v) ==
    CASE v.type_ = "String"  -> {IF stoi(v.string_value_).ok
                                 THEN stoi(v.string_value_).val ELSE 0}
      [] v.type_ = "Integer" -> {v.int_value_}
      [] v.type_ = "Number"  -> DoubleToInt(v.double_value_)
      [] v.type_ = "Boolean" -> {IF v.bool_value_ THEN 1 ELSE 0}
      [] OTHER               -> {0}

as_double(v) ==
    CASE v.type_ = "String"  -> IF stod(v.string_value_).ok
                                THEN stod(v.string_value_).val ELSE DZero
      [] v.type_ = "Integer" -> IntToDouble(v.int_value_)
      [] v.type_ = "Number"  -> v.double_value_
      [] v.type_ = "Boolean" -> IF v.bool_value_ THEN Double(FALSE, 1, 0) ELSE DZero
      [] OTHER               -> DZero

\* as_bool that takes every non-empty String but "false" as true.
as_bool_zero_is_true(v) ==
    CASE v.type_ = "String"  -> /\ v.string_value_ # <<>>
                                /\ v.string_value_ # <<"f", "a", "l", "s", "e">>
      [] v.type_ = "Integer" -> v.int_value_ # 0
      [] v.type_ = "Number"  -> DoubleNonZero(v.double_value_)
      [] v.type_ = "Boolean" -> v.bool_value_
      [] OTHER               -> FALSE

as_bool(v) ==
    CASE v.type_ = "String"  -> /\ v.string_value_ # <<>>
                                /\ v.string_value_ # <<"f", "a", "l", "s", "e">>
                                /\ v.string_value_ # <<"0">>
      [] v.type_ = "Integer" -> v.int_value_ # 0
      [] v.type_ = "Number"  -> DoubleNonZero(v.double_value_)
      [] v.type_ = "Boolean" -> v.bool_value_
      [] OTHER               -> FALSE

\* object_values_[key] = value
\* MapPut that keeps the value of a key already present (std::map::insert).
MapPut_keeps_first(m, key, value) ==
    [k \in DOMAIN m \cup {key} |-> IF k \in DOMAIN m THEN m[k] ELSE value]

MapPut(m, key, value) ==
    [k \in DOMAIN m \cup {key} |-> IF k = key THEN value ELSE m[k]]

\* v.set(key, value): the value v has afterwards
JSONValue_set(v, key, value) ==
    LET o == IF v.type_ # "Object"
             THEN [v EXCEPT !.type_ = "Object", !.string_value_ = <<>>,
                            !.int_value_ = 0, !.double_value_ = DZero,
                            !.bool_value_ = FALSE, !.array_values_ = <<>>]
             ELSE v
    IN  [o EXCEPT !.object_values_ = MapPut(o.object_values_, key, value)]

JSONValue_get(v, key) ==
    IF v.type_ # "Object" THEN JSONValue
    ELSE IF key \in DOMAIN v.object_values_ THEN v.object_values_[key]
    ELSE JSONValue

has_key(v, key) ==
    IF v.type_ # "Object" THEN FALSE ELSE key \in DOMAIN v.object_values_

\* The keys of a std::map in iteration order: ascending.
RECURSIVE SortedKeys(_)
SortedKeys(S) ==
    IF S = {} THEN <<>>
    ELSE LET least == CHOOSE k \in S : \A j \in S \ {k} : StrLess(k, j)
         IN  <<least>> \o SortedKeys(S \ {least})

JSONValue_get_keys(v) ==
    IF v.type_ = "Object" THEN SortedKeys(DOMAIN v.object_values_) ELSE <<>>

\* push_back that inserts the value in front of the elements.
push_back_front(v, value) ==
    IF v.type_ # "Array"
    THEN [v EXCEPT !.type_ = "Array", !.string_value_ = <<>>, !.int_value_ = 0,
                   !.double_value_ = DZero, !.bool_value_ = FALSE,
                   !.object_values_ = EmptyMap, !.array_values_ = <<value>>]
    ELSE [v EXCEPT !.array_values_ = <<value>> \o v.array_values_]

\* push_back that leaves the members of an Object in place when it turns it
\* into an Array.
push_back_keeps_members(v, value) ==
    LET a == IF v.type_ # "Array"
             THEN [v EXCEPT !.type_ = "Array", !.string_value_ = <<>>,
                            !.int_value_ = 0, !.double_value_ = DZero,
                            !.bool_value_ = FALSE]
             ELSE v
    IN  [a EXCEPT !.array_values_ = Append(a.array_values_, value)]

\* v.push_back(value): the value v has afterwards
push_back(v, value) ==
    LET a == IF v.type_ # "Array"
             THEN [v EXCEPT !.type_ = "Array", !.string_value_ = <<>>,
                            !.int_value_ = 0, !.double_value_ = DZero,
                            !.bool_value_ = FALSE, !.object_values_ = EmptyMap]
             ELSE v
    IN  [a EXCEPT !.array_values_ = Append(a.array_values_, value)]

\* index is a size_t: 0-based and never negative
at(v, index) ==
    IF v.type_ # "Array" \/ index >= Len(v.array_values_) THEN JSONValue
    ELSE v.array_values_[index + 1]

\* size that counts the elements of an Array only.
size_of_array_only(v) == IF v.type_ = "Array" THEN Len(v.array_values_) ELSE 0

size(v) ==
    IF v.type_ = "Array" THEN Len(v.array_values_)
    ELSE IF v.type_ = "Object" THEN Cardinality(DOMAIN v.object_values_)
    ELSE 0

(***************************************************************************)
(* JSONParser.  A parsing function returns [ok, val, pos, err]: with ok it *)
(* returned val and left the cursor at pos; without, it threw the          *)
(* std::runtime_error whose what() is err.                                 *)
(***************************************************************************)
Return(val, pos) == [ok |-> TRUE, val |-> val, pos |-> pos, err |-> ""]

Throw(err, pos) == [ok |-> FALSE, val |-> JSONValue, pos |-> pos, err |-> err]

\* skip_whitespace that passes over the space character only.
RECURSIVE skip_whitespace_spaces_only(_, _)
skip_whitespace_spaces_only(text, pos) ==
    IF pos < Len(text) /\ text[pos + 1] = " "
    THEN skip_whitespace_spaces_only(text, pos + 1)
    ELSE pos

RECURSIVE skip_whitespace(_, _)
skip_whitespace(text, pos) ==
    IF pos < Len(text) /\ isspace(text[pos + 1])
    THEN skip_whitespace(text, pos + 1)
    ELSE pos

\* The switch on the character after a backslash: the character it denotes,
\* or <<>> for the default branch, which throws.
\* Unescape that passes an unknown escape character through.
Unescape_passes_through(escape) ==
    CASE escape = "b"  -> <<BS>>
      [] escape = "f"  -> <<"\f">>
      [] escape = "n"  -> <<"\n">>
      [] escape = "r"  -> <<"\r">>
      [] escape = "t"  -> <<"\t">>
      [] OTHER         -> <<escape>>

Unescape(escape) ==
    CASE escape = "\"" -> <<"\"">>
      [] escape = "\\" -> <<"\\">>
      [] escape = "/"  -> <<"/">>
      [] escape = "b"  -> <<BS>>
      [] escape = "f"  -> <<"\f">>
      [] escape = "n"  -> <<"\n">>
      [] escape = "r"  -> <<"\r">>
      [] escape = "t"  -> <<"\t">>
      [] OTHER         -> <<>>

\* The end of an iteration of a loop that goes on to the next iteration,
\* with the cursor at pos and the value val built so far.
Continue(val, pos) ==
    [ok |-> TRUE, val |-> val, pos |-> pos, err |-> "", continue |-> TRUE]

Continues(iteration) == "continue" \in DOMAIN iteration

\* parse_string_iteration that reads the character after a backslash without
\* the test for the end of the text.
parse_string_iteration_unchecked_escape(text, pos, acc) ==
    LET c == text[pos + 1] IN
    IF c = "\"" THEN Return(acc, pos + 1)
    ELSE IF c = "\\"
    THEN IF Unescape(CharAt(text, pos + 1)) = <<>>
         THEN Throw("Invalid escape sequence: \\" \o CharAt(text, pos + 1), pos + 2)
         ELSE Continue(acc \o Unescape(CharAt(text, pos + 1)), pos + 2)
    ELSE Continue(Append(acc, c), pos + 1)

\* parse_string_iteration that returns at the closing quote without moving
\* the cursor past it.
parse_string_iteration_keeps_quote(text, pos, acc) ==
    LET c == text[pos + 1] IN
    IF c = "\"" THEN Return(acc, pos)
    ELSE IF c = "\\"
    THEN IF pos + 1 >= Len(text)
         THEN Throw("Unexpected end of input in string", pos + 1)
         ELSE LET escape == text[pos + 2] IN
              IF Unescape(escape) = <<>>
              THEN Throw("Invalid escape sequence: \\" \o escape, pos + 2)
              ELSE Continue(acc \o Unescape(escape), pos + 2)
    ELSE Continue(Append(acc, c), pos + 1)

\* One iteration of the while loop of parse_string, entered with the cursor
\* at pos < length and the characters acc collected so far: it returns,
\* throws or goes on.
parse_string_iteration(text, pos, acc) ==
    LET c == text[pos + 1] IN
    IF c = "\"" THEN Return(acc, pos + 1)
    ELSE IF c = "\\"
    THEN IF pos + 1 >= Len(text)
         THEN Throw("Unexpected end of input in string", pos + 1)
         ELSE LET escape == text[pos + 2] IN
              IF Unescape(escape) = <<>>
              THEN Throw("Invalid escape sequence: \\" \o escape, pos + 2)
              ELSE Continue(acc \o Unescape(escape), pos + 2)
    ELSE Continue(Append(acc, c), pos + 1)

RECURSIVE parse_string_loop(_, _, _)

\* The while loop of parse_string after an iteration: the next one, or what
\* the iteration returned or threw.
string_loop_next(text, iteration) ==
    IF Continues(iteration)
    THEN parse_string_loop(text, iteration.pos, iteration.val)
    ELSE iteration

\* The while loop of parse_string, entered with the cursor at pos and the
\* characters acc collected so far.
parse_string_loop(text, pos, acc) ==
    IF ~(pos < Len(text)) THEN Throw("Unterminated string", pos)
    ELSE string_loop_next(text, parse_string_iteration(text, pos, acc))

\* val is the std::string returned
parse_string(text, pos) ==
    IF CharAt(text, pos) # "\""
    THEN Throw("Expected '\"' at start of string", pos)
    ELSE parse_string_loop(text, pos + 1, <<>>)

\* if (content[pos] == '-') pos++;
MinusEnd(text, pos) == IF CharAt(text, pos) = "-" THEN pos + 1 ELSE pos

\* The optional '.' and the digits after it.
FractionEnd(text, pos) ==
    IF pos < Len(text) /\ text[pos + 1] = "." THEN DigitRunEnd(text, pos + 1)
    ELSE pos

\* The optional exponent sign and the digits after it.
ExponentSignEnd(text, pos) ==
    IF pos < Len(text) /\ text[pos + 1] \in {"+", "-"} THEN pos + 1 ELSE pos

\* The optional 'e' or 'E', sign and digits.
ExponentEnd(text, pos) ==
    IF pos < Len(text) /\ text[pos + 1] \in {"e", "E"}
    THEN DigitRunEnd(text, ExponentSignEnd(text, pos + 1))
    ELSE pos

\* The cursor after the lexeme parse_number scans from pos.
NumberEnd(text, pos) ==
    ExponentEnd(text, FractionEnd(text, DigitRunEnd(text, MinusEnd(text, pos))))

\* num_str.find(c) != std::string::npos
Contains(str, c) == \E i \in 1..Len(str) : str[i] = c

\* number_value with the test for an exponent forgotten.
number_value_no_exponent(num_str) ==
    IF Contains(num_str, ".")
    THEN [ok |-> stod(num_str).ok, val |-> JSONValue_double(stod(num_str).val)]
    ELSE [ok |-> stoi(num_str).ok, val |-> JSONValue_int(stoi(num_str).val)]

\* The try block of parse_number: the lexeme num_str converted to a value.
\* A failed conversion is the exception the catch block rethrows.
number_value(num_str) ==
    IF Contains(num_str, ".") \/ Contains(num_str, "e") \/ Contains(num_str, "E")
    THEN [ok |-> stod(num_str).ok, val |-> JSONValue_double(stod(num_str).val)]
    ELSE [ok |-> stoi(num_str).ok, val |-> JSONValue_int(stoi(num_str).val)]

\* parse_number with the lexeme num_str, which ends at end, converted to number.
number_result(num_str, end, number) ==
    IF number.ok THEN Return(number.val, end)
    ELSE Throw("Invalid number: " \o Text(num_str), end)

\* parse_number with the end of the lexeme known.
number_lexeme(text, start, end) ==
    number_result(substr(text, start, end - start), end,
                  number_value(substr(text, start, end - start)))

parse_number(text, pos) == number_lexeme(text, pos, NumberEnd(text, pos))

RECURSIVE parse_value(_, _), parse_object(_, _), parse_object_loop(_, _, _),
          parse_array(_, _), parse_array_loop(_, _, _)
RECURSIVE parse_object_iteration(_, _, _), parse_array_iteration(_, _, _)
RECURSIVE object_iteration_key(_, _, _), object_iteration_colon(_, _, _),
          object_iteration_value(_, _, _, _), object_iteration_set(_, _, _, _),
          object_iteration_end(_, _, _), object_loop_next(_, _),
          array_iteration_push(_, _, _), array_iteration_end(_, _, _),
          array_loop_next(_, _)

parse_value(text, pos0) ==
    LET pos == skip_whitespace(text, pos0) IN
    IF pos >= Len(text) THEN Throw("Unexpected end of input", pos)
    ELSE LET c == text[pos + 1] IN
         IF c = "{" THEN parse_object(text, pos)
         ELSE IF c = "[" THEN parse_array(text, pos)
         ELSE IF c = "\""
         THEN LET s == parse_string(text, pos)
              IN  IF s.ok THEN Return(JSONValue_string(s.val), s.pos) ELSE s
         ELSE IF c = "t" \/ c = "f"
         THEN IF substr(text, pos, 4) = <<"t", "r", "u", "e">>
              THEN Return(JSONValue_bool(TRUE), pos + 4)
              ELSE IF substr(text, pos, 5) = <<"f", "a", "l", "s", "e">>
              THEN Return(JSONValue_bool(FALSE), pos + 5)
              ELSE Throw("Invalid boolean value", pos)
         ELSE IF c = "n"
         THEN IF substr(text, pos, 4) = <<"n", "u", "l", "l">>
              THEN Return(JSONValue, pos + 4)
              ELSE Throw("Invalid null value", pos)
         ELSE IF isdigit(c) \/ c = "-" THEN parse_number(text, pos)
         ELSE Throw("Unexpected character: " \o c, pos)

\* One iteration of the while loop of parse_object, entered with the cursor
\* at pos0 < length and the object obj built so far.
parse_object_iteration(text, pos0, obj) ==
    object_iteration_key(text, obj, skip_whitespace(text, pos0))

\* The rest of the iteration after the white space before the key, which
\* ends at p1.
object_iteration_key(text, obj, p1) ==
    IF CharAt(text, p1) # "\""
    THEN Throw("Expected string key in object", p1)
    ELSE object_iteration_colon(text, obj, parse_string(text, p1))

\* The rest of the iteration after key = parse_string(content, pos).
object_iteration_colon(text, obj, key) ==
    IF ~key.ok THEN key
    ELSE object_iteration_value(text, obj, key, skip_whitespace(text, key.pos))

\* The rest of the iteration after the white space after the key, which ends
\* at p2.
object_iteration_value(text, obj, key, p2) ==
    IF p2 >= Len(text) \/ text[p2 + 1] # ":"
    THEN Throw("Expected ':' after key", p2)
    ELSE object_iteration_set(text, obj, key,
                              parse_value(text, skip_whitespace(text, p2 + 1)))

\* The rest of the iteration after value = parse_value(content, pos).
object_iteration_set(text, obj, key, value) ==
    IF ~value.ok THEN value
    ELSE object_iteration_end(text, JSONValue_set(obj, key.val, value.val),
                              skip_whitespace(text, value.pos))

\* The end of the iteration, with obj.set(key, value) done and the cursor at
\* p4 after the white space after the value.
object_iteration_end(text, obj2, p4) ==
    IF p4 >= Len(text)
    THEN Throw("Unexpected end of input in object", p4)
    ELSE IF text[p4 + 1] = "}"
    THEN Return(obj2, p4 + 1)
    ELSE IF text[p4 + 1] = ","
    THEN Continue(obj2, p4 + 1)
    ELSE Throw("Expected ',' or '}' in object", p4)

\* The while loop of parse_object after an iteration: the next one, or what
\* the iteration returned or threw.
object_loop_next(text, iteration) ==
    IF Continues(iteration)
    THEN parse_object_loop(text, iteration.pos, iteration.val)
    ELSE iteration

\* The while loop of parse_object, entered with the cursor at pos0 and the
\* object obj built so far.
parse_object_loop(text, pos0, obj) ==
    IF ~(pos0 < Len(text)) THEN Return(obj, pos0)
    ELSE object_loop_next(text, parse_object_iteration(text, pos0, obj))

parse_object(text, pos0) ==
    LET obj == JSONValue_set(JSONValue, <<>>, JSONValue)
        pos == skip_whitespace(text, pos0 + 1)
    IN  IF pos < Len(text) /\ text[pos + 1] = "}"
        THEN Return(obj, pos + 1)
        ELSE parse_object_loop(text, pos, obj)

\* One iteration of the while loop of parse_array, entered with the cursor
\* at pos0 < length and the array arr built so far.
parse_array_iteration(text, pos0, arr) ==
    array_iteration_push(text, arr, parse_value(text, skip_whitespace(text, pos0)))

\* The rest of the iteration after value = parse_value(content, pos).
array_iteration_push(text, arr, value) ==
    IF ~value.ok THEN value
    ELSE array_iteration_end(text, push_back(arr, value.val),
                             skip_whitespace(text, value.pos))

\* The end of the iteration, with arr.push_back(value) done and the cursor at
\* p2 after the white space after the value.
array_iteration_end(text, arr2, p2) ==
    IF p2 >= Len(text)
    THEN Throw("Unexpected end of input in array", p2)
    ELSE IF text[p2 + 1] = "]"
    THEN Return(arr2, p2 + 1)
    ELSE IF text[p2 + 1] = ","
    THEN Continue(arr2, p2 + 1)
    ELSE Throw("Expected ',' or ']' in array", p2)

\* The while loop of parse_array after an iteration: the next one, or what
\* the iteration returned or threw.
array_loop_next(text, iteration) ==
    IF Continues(iteration)
    THEN parse_array_loop(text, iteration.pos, iteration.val)
    ELSE iteration

\* The while loop of parse_array, entered with the cursor at pos0 and the
\* array arr built so far.
parse_array_loop(text, pos0, arr) ==
    IF ~(pos0 < Len(text)) THEN Return(arr, pos0)
    ELSE array_loop_next(text, parse_array_iteration(text, pos0, arr))

parse_array(text, pos0) ==
    LET arr == JSONValue
        pos == skip_whitespace(text, pos0 + 1)
    IN  IF pos < Len(text) /\ text[pos + 1] = "]"
        THEN Return(arr, pos + 1)
        ELSE parse_array_loop(text, pos, arr)

\* JSONResult: success = false, error_message empty, root Null
JSONResult == [success |-> FALSE, error_message |-> "", root |-> JSONValue]

\* parse with a catch block that drops the message of the exception.
parse_drops_message(text) ==
    LET r == parse_value(text, skip_whitespace(text, 0))
    IN  IF r.ok
        THEN [JSONResult EXCEPT !.root = r.val, !.success = TRUE]
        ELSE [JSONResult EXCEPT !.success = FALSE]

\* parse that fails when anything but whitespace follows the value.
parse_rejects_trailing(text) ==
    IF ~parse_value(text, skip_whitespace(text, 0)).ok
    THEN [JSONResult EXCEPT
            !.error_message = parse_value(text, skip_whitespace(text, 0)).err]
    ELSE IF skip_whitespace(text, parse_value(text, skip_whitespace(text, 0)).pos)
                < Len(text)
    THEN [JSONResult EXCEPT !.error_message = "Unexpected trailing characters"]
    ELSE [JSONResult EXCEPT
            !.root = parse_value(text, skip_whitespace(text, 0)).val,
            !.success = TRUE]

parse(text) ==
    LET r == parse_value(text, skip_whitespace(text, 0))
    IN  IF r.ok
        THEN [JSONResult EXCEPT !.root = r.val, !.success = TRUE]
        ELSE [JSONResult EXCEPT !.success = FALSE, !.error_message = r.err]

\* Spaces with one space for every two asked for.
Spaces_one_per_level(n) == [i \in 1..(n \div 2) |-> " "]

\* std::string(n, ' ')
Spaces(n) == [i \in 1..n |-> " "]

RECURSIVE value_to_string(_, _, _), object_members(_, _, _, _, _),
          array_elements(_, _, _, _)

\* object_members with the separator between two members left out.
object_members_no_comma(value, keys, i, indent, pretty_print) ==
    IF i > Len(keys) THEN <<>>
    ELSE (IF pretty_print THEN Spaces(indent * 2 + 2) ELSE <<>>)
         \o <<"\"">> \o keys[i] \o <<"\"", ":", " ">>
         \o value_to_string(JSONValue_get(value, keys[i]), indent + 1, pretty_print)
         \o object_members(value, keys, i + 1, indent, pretty_print)

\* The for loop over value.get_keys(): the text of the members keys[i..].
object_members(value, keys, i, indent, pretty_print) ==
    IF i > Len(keys) THEN <<>>
    ELSE LET indent_str == IF pretty_print THEN Spaces(indent * 2) ELSE <<>>
             newline    == IF pretty_print THEN <<"\n">> ELSE <<>>
             key        == keys[i]
         IN  (IF i > 1 THEN <<",">> \o newline ELSE <<>>)
             \o indent_str \o (IF pretty_print THEN <<" ", " ">> ELSE <<>>)
             \o <<"\"">> \o key \o <<"\"", ":", " ">>
             \o value_to_string(JSONValue_get(value, key), indent + 1, pretty_print)
             \o object_members(value, keys, i + 1, indent, pretty_print)

\* The for loop over the indices: the text of the elements i.. (0-based).
array_elements(value, i, indent, pretty_print) ==
    IF ~(i < size(value)) THEN <<>>
    ELSE LET indent_str == IF pretty_print THEN Spaces(indent * 2) ELSE <<>>
             newline    == IF pretty_print THEN <<"\n">> ELSE <<>>
         IN  (IF i > 0 THEN <<",">> \o newline ELSE <<>>)
             \o indent_str \o (IF pretty_print THEN <<" ", " ">> ELSE <<>>)
             \o value_to_string(at(value, i), indent + 1, pretty_print)
             \o array_elements(value, i + 1, indent, pretty_print)

value_to_string(value, indent, pretty_print) ==
    LET indent_str == IF pretty_print THEN Spaces(indent * 2) ELSE <<>>
        newline    == IF pretty_print THEN <<"\n">> ELSE <<>>
    IN  CASE get_type(value) = "String" -> <<"\"">> \o as_string(value) \o <<"\"">>
          [] get_type(value) \in {"Integer", "Number"} -> as_string(value)
          [] get_type(value) = "Boolean" -> as_string(value)
          [] get_type(value) = "Null" -> <<"n", "u", "l", "l">>
          [] get_type(value) = "Object" ->
                <<"{">> \o newline
                \o object_members(value, JSONValue_get_keys(value), 1, indent, pretty_print)
                \o newline \o indent_str \o <<"}">>
          [] get_type(value) = "Array" ->
                <<"[">> \o newline
                \o array_elements(value, 0, indent, pretty_print)
                \o newline \o indent_str \o <<"]">>

to_string(res, pretty_print) == value_to_string(res.root, 0, pretty_print)

(***************************************************************************)
(* JSONResult: the path queries.                                           *)
(***************************************************************************)
\* The end of the run of characters other than delim that starts at pos.
RECURSIVE FieldEnd(_, _, _)
FieldEnd(str, pos, delim) ==
    IF pos < Len(str) /\ str[pos + 1] # delim THEN FieldEnd(str, pos + 1, delim)
    ELSE pos

\* getline that also yields the empty field after a final delimiter.
getline_final_field(str, pos, delim) ==
    IF pos > Len(str) \/ str = <<>>
    THEN [ok |-> FALSE, component |-> <<>>, pos |-> pos]
    ELSE IF pos = Len(str)
    THEN [ok |-> str[Len(str)] = delim, component |-> <<>>, pos |-> pos + 1]
    ELSE [ok |-> TRUE, component |-> SubSeq(str, pos + 1, FieldEnd(str, pos, delim)),
          pos |-> IF FieldEnd(str, pos, delim) < Len(str)
                  THEN FieldEnd(str, pos, delim) + 1 ELSE FieldEnd(str, pos, delim)]

\* std::getline(stream, component, delim) with the stream of str at pos:
\* [ok, component, pos].  At the end of the text nothing is extracted and
\* the call fails; a delimiter is extracted and dropped, so an empty field
\* before a delimiter is a component.
getline(str, pos, delim) ==
    IF pos >= Len(str) THEN [ok |-> FALSE, component |-> <<>>, pos |-> pos]
    ELSE LET q == FieldEnd(str, pos, delim)
         IN  [ok |-> TRUE, component |-> SubSeq(str, pos + 1, q),
              pos |-> IF q < Len(str) THEN q + 1 ELSE q]

RECURSIVE get_value_loop(_, _, _)

\* get_value_loop that takes a component of one digit as an index of an Array.
get_value_loop_indexing(path, pos, current) ==
    LET line == getline(path, pos, ".") IN
    IF ~line.ok THEN current
    ELSE IF /\ get_type(current) = "Array"
            /\ Len(line.component) = 1
            /\ isdigit(line.component[1])
    THEN get_value_loop(path, line.pos, at(current, DigitVal(line.component[1])))
    ELSE IF get_type(current) # "Object" THEN JSONValue
    ELSE IF get_type(JSONValue_get(current, line.component)) = "Null" THEN JSONValue
    ELSE get_value_loop(path, line.pos, JSONValue_get(current, line.component))

\* The while loop of get_value, with the stream at pos.
get_value_loop(path, pos, current) ==
    LET line == getline(path, pos, ".") IN
    IF ~line.ok THEN current
    ELSE IF get_type(current) # "Object" THEN JSONValue
    ELSE LET next == JSONValue_get(current, line.component)
         IN  IF get_type(next) = "Null" THEN JSONValue
             ELSE get_value_loop(path, line.pos, next)

get_value(res, path) ==
    IF path = <<>> THEN res.root ELSE get_value_loop(path, 0, res.root)

get_string(res, path, default_value) ==
    LET value == get_value(res, path)
    IN  IF get_type(value) = "Null" THEN default_value ELSE as_string(value)

\* get_int without the test for Null.
get_int_unchecked(res, path, default_value) == as_int(get_value(res, path))

\* the values get_int may return (see as_int)
get_int(res, path, default_value) ==
    LET value == get_value(res, path)
    IN  IF get_type(value) = "Null" THEN {default_value} ELSE as_int(value)

get_double(res, path, default_value) ==
    LET value == get_value(res, path)
    IN  IF get_type(value) = "Null" THEN default_value ELSE as_double(value)

get_bool(res, path, default_value) ==
    LET value == get_value(res, path)
    IN  IF get_type(value) = "Null" THEN default_value ELSE as_bool(value)

has_path(res, path) == get_type(get_value(res, path)) # "Null"

get_keys(res, path) ==
    LET value == get_value(res, path)
    IN  IF get_type(value) = "Object" THEN JSONValue_get_keys(value) ELSE <<>>

(***************************************************************************)
(* The texts handed to parse and the paths handed to the queries.          *)
(***************************************************************************)
\* Longest text over Alphabet, longest text over NumberChars, most elements
\* of a generated array or members of a generated object, longest path.
MaxLen == 3
MaxNumLen == 4
MaxElems == 2
MaxPathLen == 3
MaxStrLen == 3
MaxTrail == 2
MaxSize == 3
MaxLines == 3

Strings(A, n) == UNION {[1..i -> A] : i \in 0..n}

Prefixes(S) == UNION {{SubSeq(t, 1, i) : i \in 0..Len(t)} : t \in S}

Alphabet ==
    {"{", "}", "[", "]", "\"", ":", ",", " ", "1", "-", "a", "\\", "n", "t", "e", "."}

NumberChars == {"-", "0", "1", "2", ".", "e", "E", "+"}

Quoted(str) == <<"\"">> \o str \o <<"\"">>

\* "[" items[1] "," ... "," items[n] "]"
RECURSIVE CommaList(_)
CommaList(items) ==
    IF items = <<>> THEN <<>>
    ELSE IF Len(items) = 1 THEN items[1]
    ELSE items[1] \o <<",">> \o CommaList(Tail(items))

ArrayText(items) == <<"[">> \o CommaList(items) \o <<"]">>

\* "{" "keys[1]" ":" items[1] "," ... "}"
ObjectText(keys, items) ==
    <<"{">> \o CommaList([i \in 1..Len(keys) |-> Quoted(keys[i]) \o <<":">> \o items[i]])
            \o <<"}">>

ScalarTexts ==
    {<<"1">>, <<"n", "u", "l", "l">>, <<"t", "r", "u", "e">>, Quoted(<<"x">>),
     <<"2", ".", "5">>}

DocKeys == {<<"a">>, <<"b">>}

ArrayTexts(items) == {ArrayText(is) : is \in Strings(items, MaxElems)}

ObjectTexts(items) ==
    UNION {{ObjectText(ks, is) : ks \in [1..n -> DocKeys], is \in [1..n -> items]}
           : n \in 0..MaxElems}

\* Literals one level deep, and each of them inside one more array or object.
FlatTexts == ScalarTexts \cup ArrayTexts(ScalarTexts) \cup ObjectTexts(ScalarTexts)

Documents ==
    FlatTexts \cup {ArrayText(<<t>>) : t \in FlatTexts}
              \cup {ObjectText(<<<<"a">>>>, <<t>>) : t \in FlatTexts}

\* The texts of the examples of the specification.
NestedExample ==
    ObjectText(<<<<"a">>>>, <<ObjectText(<<<<"b">>>>, <<ObjectText(<<<<"c">>>>, <<<<"1">>>>)>>)>>)

ArrayExample ==
    ObjectText(<<<<"a">>>>, <<ArrayText(<<<<"1">>, <<"2">>, <<"3">>>>)>>)

NullExample == ObjectText(<<<<"a">>>>, <<<<"n", "u", "l", "l">>>>)

MalformedExample == <<"{", "\"", "a", "\"", ":", "}">>

EscapedKeyExample == ObjectText(<<<<"\\", "\"">>>>, <<<<"1">>>>)

Examples ==
    {NestedExample, ArrayExample, NullExample, MalformedExample, EscapedKeyExample}

\* String literals: an opening quote and up to MaxStrLen characters, among
\* them the quote, the backslash, the eight escape characters and 'u'.
StringChars == {"\"", "\\", "/", "b", "f", "n", "r", "t", "u", "a"}

StringTexts == {<<"\"">> \o body : body \in Strings(StringChars, MaxStrLen)}

\* The literals true, false and null, their prefixes, misspellings and the
\* literals followed by one more character.
LiteralWords ==
    {<<"t", "r", "u", "e">>, <<"f", "a", "l", "s", "e">>, <<"n", "u", "l", "l">>}

LiteralTexts ==
    Prefixes(LiteralWords) \cup {<<"n", "i", "l">>, <<"t", "r", "u", "E">>}
        \cup {w \o <<c>> : w \in LiteralWords, c \in {"x", "e", "l", " "}}

\* Complete values, after optional whitespace and followed by up to MaxTrail
\* more characters.
CompleteValues ==
    ScalarTexts \cup {<<"f", "a", "l", "s", "e">>, <<"-", "1">>,
                      ArrayText(<<<<"1">>>>), ArrayText(<<>>),
                      ObjectText(<<<<"a">>>>, <<<<"1">>>>), ObjectText(<<>>, <<>>)}

TrailChars == {"x", "1", "e", ".", "]", " ", ","}

TrailingTexts ==
    {lead \o value \o trail : lead \in {<<>>, <<" ">>}, value \in CompleteValues,
                              trail \in Strings(TrailChars, MaxTrail)}

\* Integer lexemes at the ends of the range of int and beyond them.
IntegerDigits ==
    {<<"9", "9", "9", "9", "9", "9", "9", "9", "9">>,
     <<"1", "0", "0", "0", "0", "0", "0", "0", "0", "0">>,
     <<"2", "1", "4", "7", "4", "8", "3", "6", "3", "9">>,
     <<"2", "1", "4", "7", "4", "8", "3", "6", "4", "7">>,
     <<"2", "1", "4", "7", "4", "8", "3", "6", "4", "8">>,
     <<"2", "1", "4", "7", "4", "8", "3", "6", "4", "9">>,
     <<"2", "1", "4", "7", "4", "8", "3", "6", "5", "0">>,
     <<"4", "2", "9", "4", "9", "6", "7", "2", "9", "6">>,
     <<"4", "2", "9", "4", "9", "6", "7", "2", "9", "7">>,
     <<"9", "9", "9", "9", "9", "9", "9", "9", "9", "9">>,
     <<"0", "2", "1", "4", "7", "4", "8", "3", "6", "4", "7">>,
     <<"1", "2", "1", "4", "7", "4", "8", "3", "6", "4", "7">>}

IntegerTexts ==
    {sign \o digits : sign \in {<<>>, <<"-">>}, digits \in IntegerDigits}

Inputs ==
    Strings(Alphabet, MaxLen) \cup Strings(NumberChars, MaxNumLen)
        \cup Prefixes(Documents) \cup Prefixes(Examples) \cup StringTexts
        \cup LiteralTexts \cup TrailingTexts \cup IntegerTexts

\* The documents the queries are tried on: objects of up to two members.
QueryValues ==
    ScalarTexts \cup {ArrayText(<<<<"1">>, <<"2">>, <<"3">>>>), ArrayText(<<>>),
                      ObjectText(<<<<"b">>>>, <<<<"1">>>>),
                      ObjectText(<<<<>>>>, <<<<"1">>>>)}

QueryDocuments ==
    QueryValues
        \cup {ObjectText(<<k>>, <<v>>) : k \in DocKeys \cup {<<>>}, v \in QueryValues}
        \cup {ObjectText(<<<<"a">>, k>>, <<v, w>>) :
                k \in DocKeys, v \in ScalarTexts, w \in {<<"1">>, Quoted(<<"x">>)}}
        \cup Examples

PathChars == {"a", "b", ".", "0"}

Paths ==
    Strings(PathChars, MaxPathLen)
        \cup {<<"a", ".", "b", ".", "c">>, <<"a", ".", "b", ".", "x">>,
              <<".", "a", ".", "b", ".", "c">>, <<"a", ".", ".", "b", ".", "c">>,
              <<"a", ".", "b", ".", "c", ".">>}

\* The documents whose root the member functions of JSONValue are called on:
\* values of the seven kinds.
ValueStrings ==
    {<<>>, <<"f", "a", "l", "s", "e">>, <<"0">>, <<"x">>, <<"1", "2">>, <<"-", "5">>,
     <<"1", ".", "9">>, <<"1", "2", "a">>, <<" ", "7">>, <<"t", "r", "u", "e">>,
     <<"9", "9", "9", "9", "9", "9", "9", "9", "9", "9", "9">>}

ValueNumbers ==
    {<<"0">>, <<"1">>, <<"-", "3">>, <<"0", ".", "0">>, <<"-", "0", ".", "0">>,
     <<"2", ".", "5">>, <<"-", "2", ".", "5">>, <<"0", ".", "5">>,
     <<"1", "e", "1", "0">>, <<"-", "1", "e", "1", "0">>}

ValueDocuments ==
    {Quoted(str) : str \in ValueStrings} \cup ValueNumbers
        \cup {<<"t", "r", "u", "e">>, <<"f", "a", "l", "s", "e">>, <<"n", "u", "l", "l">>,
              ArrayText(<<>>), ArrayText(<<<<"1">>>>),
              ArrayText(<<<<"1">>, <<"2">>, <<"3">>>>),
              ObjectText(<<>>, <<>>), ObjectText(<<<<"a">>>>, <<<<"1">>>>),
              ObjectText(<<<<"a">>, <<"b">>>>, <<<<"1">>, Quoted(<<"x">>)>>)}

\* The arguments of set, get, push_back and at.
ValueKeys == {<<"a">>, <<"b">>}
NewValues == {JSONValue, JSONValue_int(1), JSONValue_string(<<"x">>)}
Indices == 0..MaxSize

\* The texts parsed one after the other by one parser.
SessionTexts ==
    {<<"1">>, <<" ", "1">>, Quoted(<<"x">>), <<"t", "r", "u">>, MalformedExample,
     ArrayText(<<<<"1">>, <<"2">>>>), ObjectText(<<<<"a">>>>, <<<<"1">>>>)}

StringDefaults == {<<"d">>}
IntDefaults == {7, 99}
DoubleDefaults == {Double(FALSE, 15, -1)}

(***************************************************************************)
(* The state machine: a JSONParser is constructed, parse is called on a    *)
(* text, and the result is queried or serialized and parsed again.         *)
(***************************************************************************)
NoCall == [op |-> "none"]

Init ==
    /\ content = <<>>
    /\ result = JSONResult
    /\ pc = "start"
    /\ call = NoCall
    /\ ret = <<>>
    /\ reparsed = JSONResult

\* result = parser.parse(text)
Parse(texts) ==
    /\ pc = "start"
    /\ \E text \in texts :
          /\ content' = text
          /\ result' = parse(text)
    /\ pc' = "parsed"
    /\ UNCHANGED <<call, ret, reparsed>>

\* ret = parser.to_string(result, pretty_print)
Serialize ==
    /\ pc = "parsed"
    /\ \E pretty_print \in BOOLEAN :
          /\ call' = [op |-> "to_string", pretty_print |-> pretty_print]
          /\ ret' = to_string(result, pretty_print)
    /\ pc' = "serialized"
    /\ UNCHANGED <<content, result, reparsed>>

\* reparsed = parser.parse(ret)
Reparse ==
    /\ pc = "serialized"
    /\ reparsed' = parse(ret)
    /\ pc' = "reparsed"
    /\ UNCHANGED <<content, result, call, ret>>

GetValue ==
    /\ pc = "parsed"
    /\ \E path \in Paths :
          /\ call' = [op |-> "get_value", path |-> path]
          /\ ret' = get_value(result, path)
    /\ pc' = "queried"
    /\ UNCHANGED <<content, result, reparsed>>

HasPath ==
    /\ pc = "parsed"
    /\ \E path \in Paths :
          /\ call' = [op |-> "has_path", path |-> path]
          /\ ret' = has_path(result, path)
    /\ pc' = "queried"
    /\ UNCHANGED <<content, result, reparsed>>

GetKeys ==
    /\ pc = "parsed"
    /\ \E path \in Paths :
          /\ call' = [op |-> "get_keys", path |-> path]
          /\ ret' = get_keys(result, path)
    /\ pc' = "queried"
    /\ UNCHANGED <<content, result, reparsed>>

GetString ==
    /\ pc = "parsed"
    /\ \E path \in Paths, default_value \in StringDefaults :
          /\ call' = [op |-> "get_string", path |-> path,
                      default_value |-> default_value]
          /\ ret' = get_string(result, path, default_value)
    /\ pc' = "queried"
    /\ UNCHANGED <<content, result, reparsed>>

GetInt ==
    /\ pc = "parsed"
    /\ \E path \in Paths, default_value \in IntDefaults :
          /\ call' = [op |-> "get_int", path |-> path,
                      default_value |-> default_value]
          /\ ret' \in get_int(result, path, default_value)
    /\ pc' = "queried"
    /\ UNCHANGED <<content, result, reparsed>>

GetDouble ==
    /\ pc = "parsed"
    /\ \E path \in Paths, default_value \in DoubleDefaults :
          /\ call' = [op |-> "get_double", path |-> path,
                      default_value |-> default_value]
          /\ ret' = get_double(result, path, default_value)
    /\ pc' = "queried"
    /\ UNCHANGED <<content, result, reparsed>>

GetBool ==
    /\ pc = "parsed"
    /\ \E path \in Paths, default_value \in BOOLEAN :
          /\ call' = [op |-> "get_bool", path |-> path,
                      default_value |-> default_value]
          /\ ret' = get_bool(result, path, default_value)
    /\ pc' = "queried"
    /\ UNCHANGED <<content, result, reparsed>>

\* Parsing, serializing and parsing again, on every text of Inputs.
Next == Parse(Inputs) \/ Serialize \/ Reparse

Spec == Init /\ [][Next]_vars

\* Parsing and querying, on the documents of QueryDocuments.
NextQuery ==
    \/ Parse(QueryDocuments)
    \/ GetValue \/ HasPath \/ GetKeys
    \/ GetString \/ GetInt \/ GetDouble \/ GetBool

SpecQuery == Init /\ [][NextQuery]_vars

\* result.root.set(key, value)
Set ==
    /\ pc \in {"parsed", "mutated", "again"}
    /\ \E key \in ValueKeys, value \in NewValues :
          /\ call' = [op |-> "set", key |-> key, value |-> value,
                      receiver |-> result.root]
          /\ result' = [result EXCEPT !.root = JSONValue_set(@, key, value)]
    /\ pc' = "mutated"
    /\ UNCHANGED <<content, ret, reparsed>>

\* result.root.push_back(value), while the array has fewer than MaxSize elements
PushBack ==
    /\ pc \in {"parsed", "mutated", "again"}
    /\ size(result.root) < MaxSize
    /\ \E value \in NewValues :
          /\ call' = [op |-> "push_back", value |-> value, receiver |-> result.root]
          /\ result' = [result EXCEPT !.root = push_back(@, value)]
    /\ pc' = "mutated"
    /\ UNCHANGED <<content, ret, reparsed>>

\* ret = result.root.get(key)
Get ==
    /\ pc \in {"parsed", "mutated"}
    /\ \E key \in ValueKeys \cup {<<>>} :
          /\ call' = [op |-> "get", key |-> key]
          /\ ret' = JSONValue_get(result.root, key)
    /\ pc' = "read"
    /\ UNCHANGED <<content, result, reparsed>>

\* ret = result.root.at(index)
At ==
    /\ pc \in {"parsed", "mutated"}
    /\ \E index \in Indices :
          /\ call' = [op |-> "at", index |-> index]
          /\ ret' = at(result.root, index)
    /\ pc' = "read"
    /\ UNCHANGED <<content, result, reparsed>>

\* ret = result.root.size()
Size ==
    /\ pc \in {"parsed", "mutated"}
    /\ call' = [op |-> "size"]
    /\ ret' = size(result.root)
    /\ pc' = "read"
    /\ UNCHANGED <<content, result, reparsed>>

\* ret = result.root.as_bool()
AsBool ==
    /\ pc \in {"parsed", "mutated"}
    /\ call' = [op |-> "as_bool"]
    /\ ret' = as_bool(result.root)
    /\ pc' = "read"
    /\ UNCHANGED <<content, result, reparsed>>

\* ret = result.root.as_int()
AsInt ==
    /\ pc \in {"parsed", "mutated"}
    /\ call' = [op |-> "as_int"]
    /\ ret' \in as_int(result.root)
    /\ pc' = "read"
    /\ UNCHANGED <<content, result, reparsed>>

\* A later call on the same parser that starts at the cursor the call
\* before it has left.
ParseAgain_shared_cursor ==
    /\ pc \in {"parsed", "mutated", "again"}
    /\ \E text \in SessionTexts :
          /\ ret' = text
          /\ reparsed' =
                LET before == IF pc = "again" THEN ret ELSE content
                    start  == parse_value(before, skip_whitespace(before, 0)).pos
                    value  == parse_value(text, skip_whitespace(text, start))
                IN  IF value.ok
                    THEN [JSONResult EXCEPT !.root = value.val, !.success = TRUE]
                    ELSE [JSONResult EXCEPT !.error_message = value.err]
    /\ pc' = "again"
    /\ UNCHANGED <<content, result, call>>

\* reparsed = parser.parse(text): a later call on the parser that returned
\* result; ret keeps the text.
ParseAgain ==
    /\ pc \in {"parsed", "mutated", "again"}
    /\ \E text \in SessionTexts :
          /\ ret' = text
          /\ reparsed' = parse(text)
    /\ pc' = "again"
    /\ UNCHANGED <<content, result, call>>

\* Calls of parse on one parser, the caller changing the first tree returned.
NextSession == Parse(SessionTexts) \/ Set \/ PushBack \/ ParseAgain

SpecSession == Init /\ [][NextSession]_vars

\* Parsing a document and calling the member functions of its root.
NextValue ==
    \/ Parse(ValueDocuments)
    \/ Set \/ PushBack
    \/ Get \/ At \/ Size \/ AsBool \/ AsInt

SpecValue == Init /\ [][NextValue]_vars

(***************************************************************************)
(* The XML parser.  XMLNode is the struct without its parent pointer,      *)
(* which no operation modelled here reads; attributes is a function from   *)
(* names to values (std::map), children a sequence (std::vector).          *)
(***************************************************************************)
XMLNode == [name |-> <<>>, value |-> <<>>, attributes |-> EmptyMap, children |-> <<>>]

\* XMLResult()
XMLResult == [success |-> FALSE, error_message |-> "", root |-> XMLNode]

\* std::string::npos
npos == -1

\* str.find(word, pos): the first position at or after pos where word occurs.
find(str, word, pos) ==
    LET found == {i \in pos..(Len(str) - Len(word)) :
                     SubSeq(str, i + 1, i + Len(word)) = word}
    IN  IF found = {} THEN npos ELSE CHOOSE i \in found : \A j \in found : i <= j

\* A normal return of a function of XMLParser that advances the cursor, and
\* a std::runtime_error thrown by it.
XMLReturn(val, pos) == [ok |-> TRUE, val |-> val, pos |-> pos, err |-> ""]

XMLThrow(err, pos) == [ok |-> FALSE, val |-> XMLNode, pos |-> pos, err |-> err]

RECURSIVE XMLParser_skip_whitespace(_, _)
XMLParser_skip_whitespace(doc, pos) ==
    IF pos < Len(doc) /\ isspace(doc[pos + 1])
    THEN XMLParser_skip_whitespace(doc, pos + 1)
    ELSE pos

skip_comments(doc, pos) ==
    IF substr(doc, pos, 4) # <<"<", "!", "-", "-">> THEN XMLReturn(<<>>, pos)
    ELSE LET end_pos == find(doc, <<"-", "-", ">">>, pos + 4) IN
         IF end_pos = npos THEN XMLThrow("Unterminated comment", pos + 4)
         ELSE XMLReturn(<<>>, end_pos + 3)

skip_processing_instructions(doc, pos) ==
    IF CharAt(doc, pos) # "<" \/ pos + 1 >= Len(doc)
          \/ doc[pos + 2] # "?"
    THEN XMLReturn(<<>>, pos)
    ELSE LET end_pos == find(doc, <<"?", ">">>, pos + 2) IN
         IF end_pos = npos THEN XMLThrow("Unterminated processing instruction", pos + 2)
         ELSE XMLReturn(<<>>, end_pos + 2)

\* XMLParser::trim: str without the leading and trailing run of " \t\r\n".
trim(str) ==
    LET kept == {i \in 1..Len(str) : str[i] \notin {" ", "\t", "\r", "\n"}} IN
    IF kept = {} THEN <<>>
    ELSE SubSeq(str, CHOOSE i \in kept : \A j \in kept : i <= j,
                     CHOOSE i \in kept : \A j \in kept : i >= j)

\* One entity loop of parse_text_content: every occurrence of entity found
\* from position from on is replaced by the character by, and the search
\* goes on one position after the replacement.
RECURSIVE replace_entity(_, _, _, _)
replace_entity(text, entity, by, from) ==
    LET entity_pos == find(text, entity, from) IN
    IF entity_pos = npos THEN text
    ELSE replace_entity(SubSeq(text, 1, entity_pos) \o <<by>>
                            \o SubSeq(text, entity_pos + Len(entity) + 1, Len(text)),
                        entity, by, entity_pos + 1)

\* The end of the run that starts at pos of characters outside stops and,
\* where spaces is set, other than white space: the scanning loops of
\* parse_text_content, parse_attribute_value, parse_element_tag and
\* parse_attributes.
RECURSIVE RunEnd(_, _, _, _)
RunEnd(doc, pos, stops, spaces) ==
    IF pos < Len(doc) /\ doc[pos + 1] \notin stops /\ ~(spaces /\ isspace(doc[pos + 1]))
    THEN RunEnd(doc, pos + 1, stops, spaces)
    ELSE pos

parse_text_content(doc, pos) ==
    LET end  == RunEnd(doc, pos, {"<"}, FALSE)
        text == SubSeq(doc, pos + 1, end)
    IN  XMLReturn(
            replace_entity(
              replace_entity(
                replace_entity(
                  replace_entity(
                    replace_entity(text, <<"&", "a", "m", "p", ";">>, "&", 0),
                    <<"&", "l", "t", ";">>, "<", 0),
                  <<"&", "g", "t", ";">>, ">", 0),
                <<"&", "q", "u", "o", "t", ";">>, "\"", 0),
              <<"&", "a", "p", "o", "s", ";">>, "'", 0),
            end)

parse_attribute_value(doc, pos) ==
    IF pos >= Len(doc)
    THEN XMLThrow("Unexpected end of input in attribute value", pos)
    ELSE IF doc[pos + 1] \notin {"\"", "'"}
    THEN XMLThrow("Expected quote in attribute value", pos)
    ELSE LET end == RunEnd(doc, pos + 1, {doc[pos + 1]}, FALSE) IN
         IF end >= Len(doc) THEN XMLThrow("Unterminated attribute value", end)
         ELSE XMLReturn(SubSeq(doc, pos + 2, end), end + 1)

\* The while loop of parse_attributes, entered with the cursor at pos0 and
\* the node built so far.
RECURSIVE parse_attributes(_, _, _)
parse_attributes(doc, pos0, node) ==
    IF ~(pos0 < Len(doc) /\ doc[pos0 + 1] \notin {">", "/"}) THEN XMLReturn(node, pos0)
    ELSE LET name_start == XMLParser_skip_whitespace(doc, pos0) IN
         IF name_start >= Len(doc) \/ doc[name_start + 1] \in {">", "/"}
         THEN XMLReturn(node, name_start)
         ELSE LET p1 == RunEnd(doc, name_start, {"=", ">", "/"}, TRUE) IN
              IF p1 = name_start THEN XMLThrow("Invalid attribute name", p1)
              ELSE LET p2 == XMLParser_skip_whitespace(doc, p1) IN
                   IF p2 >= Len(doc) \/ doc[p2 + 1] # "="
                   THEN XMLThrow("Expected '=' after attribute name", p2)
                   ELSE LET p3 == XMLParser_skip_whitespace(doc, p2 + 1) IN
                        IF p3 >= Len(doc)
                        THEN XMLThrow("Unexpected end of input in attribute", p3)
                        ELSE LET attr_value == parse_attribute_value(doc, p3) IN
                             IF ~attr_value.ok THEN attr_value
                             ELSE parse_attributes(doc, attr_value.pos,
                                      [node EXCEPT !.attributes =
                                          MapPut(@, SubSeq(doc, name_start + 1, p1),
                                                 attr_value.val)])

\* parse_element_tag: val.found is the value returned, val.node the node.
parse_element_tag(doc, name_start, node) ==
    LET pos == RunEnd(doc, name_start, {">", "/"}, TRUE) IN
    IF pos = name_start THEN XMLReturn([found |-> FALSE, node |-> node], pos)
    ELSE LET attrs == parse_attributes(doc, XMLParser_skip_whitespace(doc, pos),
                          [node EXCEPT !.name = SubSeq(doc, name_start + 1, pos)])
         IN  IF ~attrs.ok THEN attrs
             ELSE XMLReturn([found |-> TRUE, node |-> attrs.val], attrs.pos)

RECURSIVE XMLParser_parse_node(_, _)
RECURSIVE parse_node_loop(_, _, _, _)

\* The end of parse_node: the text is the value of a node without children.
parse_node_return(node, text_content, pos) ==
    XMLReturn(IF node.children = <<>> THEN [node EXCEPT !.value = text_content]
              ELSE node, pos)

\* The while loop of parse_node, entered with the cursor at pos0, the node
\* built so far and the text collected so far.
parse_node_loop(doc, pos0, node, text_content) ==
    IF ~(pos0 < Len(doc)) THEN parse_node_return(node, text_content, pos0)
    ELSE LET p1 == XMLParser_skip_whitespace(doc, pos0) IN
         IF p1 >= Len(doc) THEN XMLThrow("Unexpected end of input", p1)
         ELSE IF doc[p1 + 1] # "<"
         THEN LET more_text == parse_text_content(doc, p1) IN
              parse_node_loop(doc, more_text.pos, node, text_content \o more_text.val)
         ELSE IF p1 + 1 >= Len(doc) THEN XMLThrow("Unexpected end of input", p1 + 1)
         ELSE IF doc[p1 + 2] # "/"
         THEN LET child == XMLParser_parse_node(doc, p1) IN
              IF ~child.ok THEN child
              ELSE parse_node_loop(doc, child.pos,
                       [node EXCEPT !.children = Append(@, child.val)], text_content)
         ELSE LET p2      == XMLParser_skip_whitespace(doc, p1 + 2)
                  tag_end == find(doc, <<">">>, p2)
              IN  IF tag_end = npos THEN XMLThrow("Unterminated closing tag", p2)
                  ELSE IF trim(SubSeq(doc, p2 + 1, tag_end)) # node.name
                  THEN XMLThrow("Mismatched closing tag: expected '" \o Text(node.name)
                                    \o "', got '"
                                    \o Text(trim(SubSeq(doc, p2 + 1, tag_end))) \o "'", p2)
                  ELSE parse_node_return(node, text_content, tag_end + 1)

\* parse_node(content, pos, parent)
XMLParser_parse_node(doc, pos0) ==
    LET p1 == XMLParser_skip_whitespace(doc, pos0) IN
    IF p1 >= Len(doc) \/ doc[p1 + 1] # "<"
    THEN XMLThrow("Expected '<' at start of element", p1)
    ELSE IF p1 + 1 >= Len(doc) THEN XMLThrow("Unexpected end of input", p1 + 1)
    ELSE IF doc[p1 + 2] = "/" THEN XMLThrow("Unexpected closing tag", p1 + 1)
    ELSE LET tag == parse_element_tag(doc, p1 + 1, XMLNode) IN
         IF ~tag.ok THEN tag
         ELSE IF ~tag.val.found THEN XMLThrow("Failed to parse element tag", tag.pos)
         ELSE LET p2 == XMLParser_skip_whitespace(doc, tag.pos) IN
              IF p2 < Len(doc) /\ doc[p2 + 1] = "/"
              THEN LET p3 == XMLParser_skip_whitespace(doc, p2 + 1) IN
                   IF p3 >= Len(doc) \/ doc[p3 + 1] # ">"
                   THEN XMLThrow("Expected '>' after '/' in self-closing tag", p3)
                   ELSE XMLReturn(tag.val.node, p3 + 1)
              ELSE IF p2 >= Len(doc) \/ doc[p2 + 1] # ">"
              THEN XMLThrow("Expected '>' after element tag", p2)
              ELSE LET text_content == parse_text_content(doc, p2 + 1) IN
                   parse_node_loop(doc, text_content.pos, tag.val.node,
                                   text_content.val)

\* The while loop of parse that skips the comments before the root element.
RECURSIVE skip_leading_comments(_, _)
skip_leading_comments(doc, pos) ==
    IF pos < Len(doc) /\ doc[pos + 1] = "<" /\ pos + 3 < Len(doc)
          /\ substr(doc, pos, 4) = <<"<", "!", "-", "-">>
    THEN LET skipped == skip_comments(doc, pos) IN
         IF ~skipped.ok THEN skipped
         ELSE skip_leading_comments(doc, XMLParser_skip_whitespace(doc, skipped.pos))
    ELSE XMLReturn(<<>>, pos)

\* The try block of parse after the first skip_whitespace.
XMLParser_parse_try(doc, p1) ==
    LET declaration == IF p1 < Len(doc) /\ doc[p1 + 1] = "<"
                          /\ p1 + 1 < Len(doc) /\ doc[p1 + 2] = "?"
                       THEN skip_processing_instructions(doc, p1)
                       ELSE XMLReturn(<<>>, p1)
    IN  IF ~declaration.ok THEN declaration
        ELSE LET comments == skip_leading_comments(doc,
                                 XMLParser_skip_whitespace(doc, declaration.pos))
             IN  IF ~comments.ok THEN comments
                 ELSE IF comments.pos >= Len(doc)
                 THEN XMLThrow("No root element found", comments.pos)
                 ELSE XMLParser_parse_node(doc, comments.pos)

\* XMLParser::parse(content)
XMLParser_parse(doc) ==
    LET parsed == XMLParser_parse_try(doc, XMLParser_skip_whitespace(doc, 0)) IN
    IF parsed.ok
    THEN [success |-> TRUE, error_message |-> "", root |-> parsed.val]
    ELSE [success |-> FALSE, error_message |-> parsed.err, root |-> XMLNode]

RECURSIVE path_components(_, _)
\* The components of get_node: the fields of path between dots that are
\* not empty.
path_components(path, pos) ==
    LET line == getline(path, pos, ".") IN
    IF ~line.ok THEN <<>>
    ELSE IF line.component = <<>> THEN path_components(path, line.pos)
    ELSE <<line.component>> \o path_components(path, line.pos)

\* The for loop of get_node over the components: [found, node], found FALSE
\* standing for nullptr.  The first child that has the name is taken.
RECURSIVE get_node_loop(_, _)
get_node_loop(components, current) ==
    IF components = <<>> THEN [found |-> TRUE, node |-> current]
    ELSE LET named == {i \in 1..Len(current.children) :
                          current.children[i].name = Head(components)}
         IN  IF named = {} THEN [found |-> FALSE, node |-> XMLNode]
             ELSE get_node_loop(Tail(components),
                      current.children[CHOOSE i \in named : \A j \in named : i <= j])

XMLResult_get_node(res, path) ==
    IF path = <<>> THEN [found |-> TRUE, node |-> res.root]
    ELSE get_node_loop(path_components(path, 0), res.root)

XMLResult_get_value(res, path, default_value) ==
    IF XMLResult_get_node(res, path).found
    THEN XMLResult_get_node(res, path).node.value
    ELSE default_value

XMLResult_has_path(res, path) == XMLResult_get_node(res, path).found

(***************************************************************************)
(* The XML inputs: the document of the README, and every prefix of short   *)
(* documents that take the parser through its branches.                    *)
(***************************************************************************)
ReadmeXML ==
        <<"\n">>
        \o <<"<", "?", "x", "m", "l", " ", "v", "e", "r", "s", "i", "o", "n", "=", "\"", "1", ".", "0", "\"", " ", "e", "n", "c", "o", "d", "i", "n", "g", "=", "\"", "U", "T", "F", "-", "8", "\"", "?", ">", "\n">>
        \o <<"<", "c", "o", "n", "f", "i", "g", ">", "\n">>
        \o <<" ", " ", " ", " ", "<", "d", "a", "t", "a", "b", "a", "s", "e", ">", "\n">>
        \o <<" ", " ", " ", " ", " ", " ", " ", " ", "<", "h", "o", "s", "t", ">", "l", "o", "c", "a", "l", "h", "o", "s", "t", "<", "/", "h", "o", "s", "t", ">", "\n">>
        \o <<" ", " ", " ", " ", " ", " ", " ", " ", "<", "p", "o", "r", "t", ">", "5", "4", "3", "2", "<", "/", "p", "o", "r", "t", ">", "\n">>
        \o <<" ", " ", " ", " ", " ", " ", " ", " ", "<", "c", "r", "e", "d", "e", "n", "t", "i", "a", "l", "s", ">", "\n">>
        \o <<" ", " ", " ", " ", " ", " ", " ", " ", " ", " ", " ", " ", "<", "u", "s", "e", "r", "n", "a", "m", "e", ">", "a", "d", "m", "i", "n", "<", "/", "u", "s", "e", "r", "n", "a", "m", "e", ">", "\n">>
        \o <<" ", " ", " ", " ", " ", " ", " ", " ", " ", " ", " ", " ", "<", "p", "a", "s", "s", "w", "o", "r", "d", ">", "s", "e", "c", "r", "e", "t", "1", "2", "3", "<", "/", "p", "a", "s", "s", "w", "o", "r", "d", ">", "\n">>
        \o <<" ", " ", " ", " ", " ", " ", " ", " ", "<", "/", "c", "r", "e", "d", "e", "n", "t", "i", "a", "l", "s", ">", "\n">>
        \o <<" ", " ", " ", " ", "<", "/", "d", "a", "t", "a", "b", "a", "s", "e", ">", "\n">>
        \o <<" ", " ", " ", " ", "<", "s", "e", "t", "t", "i", "n", "g", "s", ">", "\n">>
        \o <<" ", " ", " ", " ", " ", " ", " ", " ", "<", "d", "e", "b", "u", "g", ">", "t", "r", "u", "e", "<", "/", "d", "e", "b", "u", "g", ">", "\n">>
        \o <<" ", " ", " ", " ", " ", " ", " ", " ", "<", "l", "o", "g", "_", "l", "e", "v", "e", "l", ">", "I", "N", "F", "O", "<", "/", "l", "o", "g", "_", "l", "e", "v", "e", "l", ">", "\n">>
        \o <<" ", " ", " ", " ", "<", "/", "s", "e", "t", "t", "i", "n", "g", "s", ">", "\n">>
        \o <<"<", "/", "c", "o", "n", "f", "i", "g", ">", "\n">>

XMLDocuments ==
    {ReadmeXML} \cup Prefixes({
        <<"<", "a", ">", "<", "b", ">", "x", "<", "/", "b", ">", "<", "/", "a", ">">>,
        <<"<", "a", ">", "<", "a", ">", "y", "<", "/", "a", ">", "t", "<", "/", "a", " ", ">">>,
        <<"<", "?", "x", "m", "l", "?", ">", " ", "<", "!", "-", "-", " ", "c", " ", "-", "-", ">", "<", "c", "o", "n", "f", "i", "g", " ", "i", "d", "=", "\"", "1", "\"", " ", "k", " ", "=", " ", "'", "v", "'", ">", "<", "h", "o", "s", "t", ">", "&", "l", "t", ";", "h", "&", "a", "m", "p", ";", "a", "m", "p", ";", "&", "g", "t", ";", "<", "/", "h", "o", "s", "t", ">", "\n", "<", "p", "o", "r", "t", "/", ">", "<", "/", "c", "o", "n", "f", "i", "g", ">">>,
        <<"<", "a", " ", "b", ">">>,
        <<"<", "a", " ", "=">>,
        <<"<", "a", " ", "b", "=", "c">>,
        <<"<", "a", " ", "b", "=", "\"">>,
        <<"<", "/", "a", ">">>,
        <<"<", "a", ">", "<", "b", ">", "<", "/", "a", ">">>,
        <<"<", "!", "-", "-", " ">>,
        <<"<", "?">>,
        <<"<", "a", " ", "/", " ">>,
        <<"x">>})

\* The paths of the README and of the demo, the same paths without the name
\* of the root element, and paths into the short documents.
XMLPaths ==
    {<<"c", "o", "n", "f", "i", "g", ".", "d", "a", "t", "a", "b", "a", "s", "e", ".", "h", "o", "s", "t">>,
     <<"c", "o", "n", "f", "i", "g", ".", "d", "a", "t", "a", "b", "a", "s", "e", ".", "c", "r", "e", "d", "e", "n", "t", "i", "a", "l", "s", ".", "u", "s", "e", "r", "n", "a", "m", "e">>,
     <<"c", "o", "n", "f", "i", "g", ".", "s", "e", "t", "t", "i", "n", "g", "s", ".", "d", "e", "b", "u", "g">>,
     <<"d", "a", "t", "a", "b", "a", "s", "e", ".", "h", "o", "s", "t">>,
     <<"d", "a", "t", "a", "b", "a", "s", "e", ".", "c", "r", "e", "d", "e", "n", "t", "i", "a", "l", "s", ".", "u", "s", "e", "r", "n", "a", "m", "e">>,
     <<"s", "e", "t", "t", "i", "n", "g", "s", ".", "d", "e", "b", "u", "g">>,
     <<>>,
     <<"c", "o", "n", "f", "i", "g">>,
     <<"h", "o", "s", "t">>,
     <<"c", "o", "n", "f", "i", "g", ".", "h", "o", "s", "t">>,
     <<"a", ".", "b">>,
     <<"b">>,
     <<"a">>,
     <<".", "d", "a", "t", "a", "b", "a", "s", "e", ".", ".", "h", "o", "s", "t", ".">>}

XMLDefaults == {<<>>, <<"?">>}

(***************************************************************************)
(* A session with the XML parser: a document is parsed and the result is   *)
(* queried by path.                                                        *)
(***************************************************************************)
\* result = xml_parser.parse(text)
XMLParse ==
    /\ pc = "start"
    /\ \E text \in XMLDocuments :
          /\ content' = text
          /\ result' = XMLParser_parse(text)
    /\ pc' = "parsed"
    /\ UNCHANGED <<call, ret, reparsed>>

\* ret = result.get_value(path, default_value)
XMLGetValue ==
    /\ pc = "parsed"
    /\ \E path \in XMLPaths, default_value \in XMLDefaults :
          /\ call' = [op |-> "get_value", path |-> path, default |-> default_value]
          /\ ret' = XMLResult_get_value(result, path, default_value)
    /\ pc' = "queried"
    /\ UNCHANGED <<content, result, reparsed>>

\* ret = result.has_path(path)
XMLHasPath ==
    /\ pc = "parsed"
    /\ \E path \in XMLPaths :
          /\ call' = [op |-> "has_path", path |-> path]
          /\ ret' = XMLResult_has_path(result, path)
    /\ pc' = "queried"
    /\ UNCHANGED <<content, result, reparsed>>

NextXML == XMLParse \/ XMLGetValue \/ XMLHasPath

SpecXML == Init /\ [][NextXML]_vars

(***************************************************************************)
(* The INI parser.  sections is a function from section names to           *)
(* functions from keys to values (std::map of std::map).                   *)
(***************************************************************************)
\* INIResult()
INIResult == [success |-> FALSE, error_message |-> "", sections |-> EmptyMap]

\* INIParser::trim: str without the leading and trailing run of " \t\r\n".
INIParser_trim(str) ==
    LET kept == {i \in 1..Len(str) : str[i] \notin {" ", "\t", "\r", "\n"}} IN
    IF kept = {} THEN <<>>
    ELSE SubSeq(str, CHOOSE i \in kept : \A j \in kept : i <= j,
                     CHOOSE i \in kept : \A j \in kept : i >= j)

\* is_comment that knows '#' only.
is_comment_hash_only(line) ==
    INIParser_trim(line) # <<>> /\ Head(INIParser_trim(line)) = "#"

is_comment(line) ==
    INIParser_trim(line) # <<>> /\ Head(INIParser_trim(line)) \in {"#", ";"}

is_empty(line) == INIParser_trim(line) = <<>>

is_section(line) ==
    LET trimmed == INIParser_trim(line) IN
    Len(trimmed) >= 2 /\ trimmed[1] = "[" /\ trimmed[Len(trimmed)] = "]"

extract_section(line) ==
    LET trimmed == INIParser_trim(line) IN
    IF Len(trimmed) < 2 THEN <<>> ELSE SubSeq(trimmed, 2, Len(trimmed) - 1)

\* The end of parse_key_value: the quotes around a value are removed.
remove_quotes(value) ==
    IF Len(value) >= 2
          /\ \/ value[1] = "\"" /\ value[Len(value)] = "\""
             \/ value[1] = "'" /\ value[Len(value)] = "'"
    THEN SubSeq(value, 2, Len(value) - 1)
    ELSE value

\* parse_key_value: the std::pair as [first, second].
parse_key_value(line) ==
    LET equal_pos == find(line, <<"=">>, 0) IN
    IF equal_pos = npos THEN [first |-> <<>>, second |-> <<>>]
    ELSE [first  |-> INIParser_trim(SubSeq(line, 1, equal_pos)),
          second |-> remove_quotes(
                         INIParser_trim(SubSeq(line, equal_pos + 2, Len(line))))]

\* result.sections[current_section][key] = value
sections_put(sections, current_section, key, value) ==
    MapPut(sections, current_section,
           MapPut(IF current_section \in DOMAIN sections
                  THEN sections[current_section] ELSE EmptyMap, key, value))

\* The while loop of INIParser::parse, entered with the stream at pos, the
\* current section and the result built so far.
RECURSIVE INIParser_parse_loop(_, _, _, _)
INIParser_parse_loop(text, pos, current_section, res) ==
    LET got == getline(text, pos, "\n") IN
    IF ~got.ok THEN [res EXCEPT !.success = TRUE]
    ELSE LET line == INIParser_trim(got.component) IN
         IF is_empty(line) \/ is_comment(line)
         THEN INIParser_parse_loop(text, got.pos, current_section, res)
         ELSE IF is_section(line)
         THEN IF extract_section(line) = <<>>
              THEN [res EXCEPT !.success = FALSE,
                               !.error_message = "Invalid section format: " \o Text(line)]
              ELSE INIParser_parse_loop(text, got.pos, extract_section(line), res)
         ELSE IF current_section = <<>>
         THEN [res EXCEPT !.success = FALSE,
                          !.error_message =
                              "Key-value pair found outside of section: " \o Text(line)]
         ELSE LET key_value == parse_key_value(line) IN
              IF key_value.first = <<>>
              THEN [res EXCEPT !.success = FALSE,
                               !.error_message = "Invalid key-value format: " \o Text(line)]
              ELSE INIParser_parse_loop(text, got.pos, current_section,
                       [res EXCEPT !.sections =
                           sections_put(@, current_section, key_value.first,
                                        key_value.second)])

\* INIParser::parse(content)
INIParser_parse(text) == INIParser_parse_loop(text, 0, <<>>, INIResult)

\* The inner loop of INIParser::to_string: the lines of the keys of a section.
RECURSIVE key_value_lines(_, _)
key_value_lines(section, keys) ==
    IF keys = <<>> THEN <<>>
    ELSE Head(keys) \o <<"=">> \o section[Head(keys)] \o <<"\n">>
             \o key_value_lines(section, Tail(keys))

\* The outer loop of INIParser::to_string over the sections in names.
RECURSIVE section_blocks(_, _)
section_blocks(sections, names) ==
    IF names = <<>> THEN <<>>
    ELSE <<"[">> \o Head(names) \o <<"]", "\n">>
             \o key_value_lines(sections[Head(names)],
                                SortedKeys(DOMAIN sections[Head(names)]))
             \o <<"\n">>
             \o section_blocks(sections, Tail(names))

\* INIParser::to_string(result)
INIParser_to_string(res) == section_blocks(res.sections, SortedKeys(DOMAIN res.sections))

(***************************************************************************)
(* The INI inputs: the texts of at most MaxLines lines out of INILines,    *)
(* which hold blank lines, comments, section headers and key-value pairs,  *)
(* well-formed and not.                                                    *)
(***************************************************************************)
INILines ==
    {<<>>,
     <<" ", "\t">>,
     <<"#", "c">>,
     <<" ", ";", "c", "=">>,
     <<"[", "s", "]">>,
     <<" ", "[", "t", "]", "\r">>,
     <<"[", "]">>,
     <<"a", "=", "b">>,
     <<" ", "a", " ", "=", " ", "'", "c", "'", "\r">>,
     <<"b", "=", "\"", " ", "c", "\"">>,
     <<"c">>}

RECURSIVE JoinLines(_)
JoinLines(lines) ==
    IF lines = <<>> THEN <<>>
    ELSE IF Len(lines) = 1 THEN lines[1]
    ELSE Head(lines) \o <<"\n">> \o JoinLines(Tail(lines))

INITexts == {JoinLines(lines) : lines \in Strings(INILines, MaxLines)}

\* The lines of a text: the fields between its newlines.
RECURSIVE SplitLines(_)
SplitLines(text) ==
    IF FieldEnd(text, 0, "\n") = Len(text) THEN <<text>>
    ELSE <<SubSeq(text, 1, FieldEnd(text, 0, "\n"))>>
             \o SplitLines(SubSeq(text, FieldEnd(text, 0, "\n") + 2, Len(text)))

\* A line that the parser is documented to ignore: white space only, or '#'
\* or ';' as its first character that is not white space.
IgnoredLine(line) ==
    LET black == {i \in 1..Len(line) : line[i] \notin {" ", "\t", "\r", "\n"}} IN
    \/ black = {}
    \/ line[CHOOSE i \in black : \A j \in black : i <= j] \in {"#", ";"}

\* The text without the lines that are ignored.
WithoutIgnoredLines(text) ==
    JoinLines(SelectSeq(SplitLines(text), LAMBDA line : ~IgnoredLine(line)))

(***************************************************************************)
(* A session with the INI parser: a text is parsed; then either the text   *)
(* is edited, its comments and blank lines removed, or the result is       *)
(* serialized; and the text obtained is parsed.                            *)
(***************************************************************************)
\* result = ini_parser.parse(text)
INIParse ==
    /\ pc = "start"
    /\ \E text \in INITexts :
          /\ content' = text
          /\ result' = INIParser_parse(text)
    /\ pc' = "parsed"
    /\ UNCHANGED <<call, ret, reparsed>>

\* ret = the text without its comments and blank lines
INIRemoveIgnoredLines ==
    /\ pc = "parsed"
    /\ call' = [op |-> "remove_ignored_lines"]
    /\ ret' = WithoutIgnoredLines(content)
    /\ pc' = "edited"
    /\ UNCHANGED <<content, result, reparsed>>

\* ret = ini_parser.to_string(result)
INIToString ==
    /\ pc = "parsed"
    /\ call' = [op |-> "to_string"]
    /\ ret' = INIParser_to_string(result)
    /\ pc' = "serialized"
    /\ UNCHANGED <<content, result, reparsed>>

\* reparsed = ini_parser.parse(ret)
INIReparse ==
    /\ pc \in {"edited", "serialized"}
    /\ reparsed' = INIParser_parse(ret)
    /\ pc' = "reparsed"
    /\ UNCHANGED <<content, result, call, ret>>

NextINI == INIParse \/ INIRemoveIgnoredLines \/ INIToString \/ INIReparse

SpecINI == Init /\ [][NextINI]_vars

(***************************************************************************)
(* The steps of a parse.  A parse is made of calls of the parsing          *)
(* functions and of iterations of their loops, each entered with the       *)
(* cursor at a position of the text; a step here is one of them, entered   *)
(* at any position at which its caller can enter it.                       *)
(***************************************************************************)
ParsingSteps ==
    {"skip_whitespace", "skip_whitespace iteration",
     "parse_value",
     "parse_object", "parse_object iteration",
     "parse_array", "parse_array iteration",
     "parse_string", "parse_string iteration",
     "parse_number", "parse_number iteration"}

\* The texts whose steps are taken: documents, literals and their prefixes,
\* a string with escapes, a number with a fraction and an exponent, and an
\* object with white space between its tokens.
CursorTexts ==
    Prefixes(QueryDocuments \cup ValueDocuments) \cup LiteralTexts
        \cup Prefixes({<<"\"", "a", "\\", "n", "\\", "\"", "\\", "x", "\"">>,
                       <<" ", "-", "1", ".", "5", "e", "+", "2", " ", "x">>,
                       <<"{", " ", "\"", "a", "\"", " ", ":", "\t", "[", " ", "1",
                         " ", ",", "\n", "t", "r", "u", "e", "]", " ", ",", " ",
                         "\"", "b", "\"", ":", "{", " ", "}", "\r", "}", " ">>})

\* What the caller of a step has checked before it enters the step at pos:
\* the character a function is dispatched on, the condition of a loop.
Entered(step, text, pos) ==
    CASE step = "parse_object"              -> CharAt(text, pos) = "{"
      [] step = "parse_array"               -> CharAt(text, pos) = "["
      [] step = "parse_number"              -> isdigit(CharAt(text, pos)) \/ CharAt(text, pos) = "-"
      [] step = "skip_whitespace iteration" -> pos < Len(text) /\ isspace(text[pos + 1])
      [] step = "parse_number iteration"    -> pos < Len(text) /\ isdigit(text[pos + 1])
      [] step \in {"parse_object iteration", "parse_array iteration",
                   "parse_string iteration"} -> pos < Len(text)
      [] OTHER                              -> TRUE

\* The step entered at pos: what it returns or throws, or that its loop goes
\* on, and where it leaves the cursor.  An iteration of skip_whitespace and
\* of the digit loops of parse_number is pos++.
StepResult(step, text, pos) ==
    CASE step = "skip_whitespace"           -> Return(<<>>, skip_whitespace(text, pos))
      [] step = "skip_whitespace iteration" -> Continue(<<>>, pos + 1)
      [] step = "parse_value"               -> parse_value(text, pos)
      [] step = "parse_object"              -> parse_object(text, pos)
      [] step = "parse_object iteration"    ->
             parse_object_iteration(text, pos, JSONValue_set(JSONValue, <<>>, JSONValue))
      [] step = "parse_array"               -> parse_array(text, pos)
      [] step = "parse_array iteration"     -> parse_array_iteration(text, pos, JSONValue)
      [] step = "parse_string"              -> parse_string(text, pos)
      [] step = "parse_string iteration"    -> parse_string_iteration(text, pos, <<>>)
      [] step = "parse_number"              -> parse_number(text, pos)
      [] step = "parse_number iteration"    -> Continue(<<>>, pos + 1)

\* One step of the parse of content, entered with the cursor at pos.
ParserStep ==
    /\ pc = "parsed"
    /\ \E step \in ParsingSteps, pos \in 0..Len(content) :
          /\ Entered(step, content, pos)
          /\ call' = [op |-> step, pos |-> pos]
          /\ ret' = StepResult(step, content, pos)
    /\ pc' = "stepped"
    /\ UNCHANGED <<content, result, reparsed>>

\* The paths that are queried between two calls of to_string.
RepeatPaths ==
    {<<>>, <<"a">>, <<"b">>, <<"a", ".", "b">>, <<"a", ".", "b", ".", "c">>,
     <<"a", ".", "0">>, <<".", "a">>, <<"x">>}

\* The record of a query made between two calls of to_string.
Queried(op, path, default_value, value) ==
    [op |-> op, path |-> path, default_value |-> default_value, value |-> value,
     pretty_print |-> call.pretty_print]

\* A query that leaves the key it asks for in the root, as a look-up with
\* std::map::operator[] would.
QueryBetween_inserts_key ==
    /\ pc = "serialized"
    /\ \E path \in RepeatPaths :
          /\ call' = Queried("get_value", path, <<>>, get_value(result, path))
          /\ result' = IF get_type(result.root) = "Object"
                       THEN [result EXCEPT !.root = JSONValue_set(@, path, get_value(result, path))]
                       ELSE result
    /\ pc' = "serialized"
    /\ UNCHANGED <<content, ret, reparsed>>

\* One of result.get_value(path), has_path, get_keys, get_string, get_int,
\* get_double and get_bool, called after ret = parser.to_string(result,
\* pretty_print); its value is kept in call.
QueryBetween ==
    /\ pc = "serialized"
    /\ \E path \in RepeatPaths :
          \/ call' = Queried("get_value", path, <<>>, get_value(result, path))
          \/ call' = Queried("has_path", path, <<>>, has_path(result, path))
          \/ call' = Queried("get_keys", path, <<>>, get_keys(result, path))
          \/ \E default_value \in StringDefaults :
                call' = Queried("get_string", path, default_value,
                                get_string(result, path, default_value))
          \/ \E default_value \in IntDefaults :
                \E value \in get_int(result, path, default_value) :
                    call' = Queried("get_int", path, default_value, value)
          \/ \E default_value \in DoubleDefaults :
                call' = Queried("get_double", path, default_value,
                                get_double(result, path, default_value))
          \/ \E default_value \in BOOLEAN :
                call' = Queried("get_bool", path, default_value,
                                get_bool(result, path, default_value))
    /\ pc' = "serialized"
    /\ UNCHANGED <<content, result, ret, reparsed>>

\* The second parser.to_string(result, pretty_print), with the flag of the
\* first.
SerializeAgain ==
    /\ pc = "serialized"
    /\ ret' = to_string(result, call.pretty_print)
    /\ pc' = "repeated"
    /\ UNCHANGED <<content, result, call, reparsed>>

NextRepeat == Parse(QueryDocuments) \/ Serialize \/ QueryBetween \/ SerializeAgain

SpecRepeat == Init /\ [][NextRepeat]_vars

\* The runs of white space that are written into a text.
WhitespaceRuns ==
    {<<" ">>, <<"\t">>, <<"\n">>, <<"\r">>, <<" ", "\n">>, <<"\r", "\n">>,
     <<"\n", "\t", " ">>}

\* text with the characters of run written in before its character pos.
InsertAt(text, pos, run) ==
    SubSeq(text, 1, pos) \o run \o SubSeq(text, pos + 1, Len(text))

\* reparsed = parser.parse(ret), where ret is the text of the first parse with a
\* run of white space written in at pos.
ParseSpaced ==
    /\ pc = "parsed"
    /\ \E pos \in 0..Len(content), run \in WhitespaceRuns :
          /\ call' = [op |-> "parse", pos |-> pos, run |-> run]
          /\ ret' = InsertAt(content, pos, run)
          /\ reparsed' = parse(InsertAt(content, pos, run))
    /\ pc' = "spaced"
    /\ UNCHANGED <<content, result>>

NextSpaced == Parse(CursorTexts \cup TrailingTexts) \/ ParseSpaced

SpecSpaced == Init /\ [][NextSpaced]_vars

NextCursor == Parse(CursorTexts) \/ ParserStep

SpecCursor == Init /\ [][NextCursor]_vars

(***************************************************************************)
(* The claims.                                                             *)
(***************************************************************************)

\* C1: parse returns normally with one of two shapes: success and an empty
\* error_message, or failure with a non-empty error_message and the root left
\* as JSONValue() (kind Null, nothing of the part parsed before the error).
C1_ResultShape(res) ==
    \/ res.success /\ res.error_message = ""
    \/ ~res.success /\ res.error_message # "" /\ res.root = JSONValue

C1_ParseResultShape ==
    /\ pc # "start" => C1_ResultShape(result)
    /\ pc = "reparsed" => C1_ResultShape(reparsed)

\* {"a":} fails after the object and its key have been parsed.
C1_Witness ==
    /\ pc = "parsed"
    /\ content = MalformedExample
    /\ ~result.success
    /\ result.error_message = "Unexpected character: }"
    /\ get_type(result.root) = "Null"

\* C2: an input in which an opened object or array reaches the end of the
\* input before its closing delimiter yields success = false.  The inputs are
\* the proper prefixes of the generated array and object literals, which
\* include "{", "[", "[1," and {"a":1, .
C2_Unterminated ==
    {t \in Prefixes(Documents) \ Documents : t # <<>> /\ t[1] \in {"{", "["}}

C2_UnterminatedFails ==
    (pc = "parsed" /\ content \in C2_Unterminated) => ~result.success

\* C3: an array literal of n >= 0 elements parses to an Array of size n whose
\* at(i) is the i-th element written; "[]" is an Array of size 0.
C3_ArrayOf(items) ==
    /\ result.success
    /\ get_type(result.root) = "Array"
    /\ size(result.root) = Len(items)
    /\ \A i \in 1..Len(items) : at(result.root, i - 1) = parse(items[i]).root

C3_ArrayLiteral ==
    \A items \in Strings(ScalarTexts, MaxElems) :
        (pc = "parsed" /\ content = ArrayText(items)) => C3_ArrayOf(items)

\* C4: for an object literal that parses, get_keys("") is exactly the set of
\* the top-level keys written in the literal, no more and no fewer, and
\* has_path(k) is true for each such key k.
C4_Literals ==
    {[keys |-> <<k>>, items |-> <<v>>] : k \in DocKeys, v \in QueryValues}
        \cup {[keys |-> <<<<"a">>, k>>, items |-> <<v, w>>] :
                k \in DocKeys, v \in ScalarTexts, w \in {<<"1">>, Quoted(<<"x">>)}}

C4_KeysOf(lit) == {lit.keys[i] : i \in 1..Len(lit.keys)}

C4_KeysAsWritten ==
    \A lit \in C4_Literals :
        (pc = "queried" /\ content = ObjectText(lit.keys, lit.items)
                /\ result.success) =>
            /\ (call.op = "get_keys" /\ call.path = <<>>) =>
                  {ret[i] : i \in 1..Len(ret)} = C4_KeysOf(lit)
            /\ (call.op = "has_path" /\ call.path \in C4_KeysOf(lit)) => ret

\* The fields of a path split on '.', the empty ones included.
RECURSIVE PathFields(_, _)
PathFields(path, field) ==
    IF path = <<>> THEN <<field>>
    ELSE IF Head(path) = "." THEN <<field>> \o PathFields(Tail(path), <<>>)
    ELSE PathFields(Tail(path), Append(field, Head(path)))

\* The segments that get_value looks up: the fields, without an empty last one.
PathSegments(path) ==
    LET fields == PathFields(path, <<>>)
    IN  IF fields[Len(fields)] = <<>> THEN SubSeq(fields, 1, Len(fields) - 1)
        ELSE fields

\* The value reached from v by taking the member of each segment in turn.
RECURSIVE Walk(_, _)
Walk(v, segments) ==
    IF segments = <<>> THEN v
    ELSE IF get_type(v) # "Object" THEN JSONValue
    ELSE Walk(JSONValue_get(v, Head(segments)), Tail(segments))

\* C5 as stated: get_value ignores the empty segments of a path, so a path
\* with a leading, trailing or doubled dot resolves as the path without it.
C5_EmptySegmentsIgnored ==
    (pc = "queried" /\ call.op = "get_value") =>
        ret = Walk(result.root,
                   SelectSeq(PathFields(call.path, <<>>), LAMBDA f : f # <<>>))

\* C5, amended: only the empty segment after the last dot is dropped, so p
\* followed by one dot resolves as p; every other empty segment is looked up
\* as the key "".
C5_OnlyTrailingDotIgnored ==
    (pc = "queried" /\ call.op = "get_value") =>
        /\ ret = Walk(result.root, PathSegments(call.path))
        /\ (call.path # <<>> /\ call.path[Len(call.path)] # ".") =>
              get_value(result, call.path \o <<".">>) = ret

C5_Witness ==
    /\ pc = "queried"
    /\ call.op = "get_value"
    /\ content = NestedExample
    /\ call.path = <<"a", ".", "b", ".", "c", ".">>
    /\ ret = JSONValue_int(1)
    /\ get_value(result, <<".", "a", ".", "b", ".", "c">>) = JSONValue
    /\ get_value(result, <<"a", ".", ".", "b", ".", "c">>) = JSONValue

\* C6: get_string, get_int, get_double and get_bool return the default of the
\* caller when get_value(path) is of kind Null, and the as_* conversion of
\* that value otherwise.  On {"a":{"b":{"c":1}}}, get_int("a.b.c") is 1 and
\* get_int("a.b.x", 99) is 99; on {"a":null}, get_int("a", 7) is 7.
C6_IsNull == get_type(get_value(result, call.path)) = "Null"

C6_DefaultExactlyOnNull ==
    pc = "queried" =>
        /\ call.op = "get_string" =>
              ret = IF C6_IsNull THEN call.default_value
                    ELSE as_string(get_value(result, call.path))
        /\ call.op = "get_int" =>
              IF C6_IsNull THEN ret = call.default_value
              ELSE ret \in as_int(get_value(result, call.path))
        /\ call.op = "get_double" =>
              ret = IF C6_IsNull THEN call.default_value
                    ELSE as_double(get_value(result, call.path))
        /\ call.op = "get_bool" =>
              ret = IF C6_IsNull THEN call.default_value
                    ELSE as_bool(get_value(result, call.path))
        /\ (call.op = "get_int" /\ content = NestedExample) =>
              /\ call.path = <<"a", ".", "b", ".", "c">> => ret = 1
              /\ (call.path = <<"a", ".", "b", ".", "x">> /\ call.default_value = 99)
                    => ret = 99
        /\ (call.op = "get_int" /\ content = NullExample
                /\ call.path = <<"a">> /\ call.default_value = 7) => ret = 7

C6_Witness ==
    /\ pc = "queried"
    /\ call.op = "get_int"
    /\ content = NullExample
    /\ call.path = <<"a">>
    /\ call.default_value = 7
    /\ ret = 7

\* C7: get_value descends through Object values only: when a value reached
\* before the last segment is not an Object the result is Null, so an element
\* of an array is not addressable.  On {"a":[1,2,3]}, has_path("a.0") is
\* false and has_path("a") is true.
C7_ObjectsOnly ==
    pc = "queried" =>
        /\ call.op = "get_value" =>
              \A k \in 0..(Len(PathSegments(call.path)) - 1) :
                  get_type(Walk(result.root, SubSeq(PathSegments(call.path), 1, k)))
                      # "Object" => ret = JSONValue
        /\ (call.op = "has_path" /\ content = ArrayExample) =>
              /\ call.path = <<"a", ".", "0">> => ret = FALSE
              /\ call.path = <<"a">> => ret = TRUE

C7_Witness ==
    /\ pc = "queried"
    /\ call.op = "has_path"
    /\ content = ArrayExample
    /\ get_type(get_value(result, <<"a">>)) = "Array"
    /\ call.path = <<"a", ".", "0">>
    /\ ret = FALSE

\* A tree without a value of kind Number.
RECURSIVE NoNumber(_)
NoNumber(v) ==
    /\ get_type(v) # "Number"
    /\ \A key \in DOMAIN v.object_values_ : NoNumber(v.object_values_[key])
    /\ \A i \in 1..Len(v.array_values_) : NoNumber(v.array_values_[i])

PlainString(str) == \A i \in 1..Len(str) : str[i] \notin {"\"", "\\"}

\* A tree whose strings hold no quote and no backslash.
RECURSIVE PlainValues(_)
PlainValues(v) ==
    /\ PlainString(v.string_value_)
    /\ \A key \in DOMAIN v.object_values_ : PlainValues(v.object_values_[key])
    /\ \A i \in 1..Len(v.array_values_) : PlainValues(v.array_values_[i])

\* A tree whose object keys hold no quote and no backslash.
RECURSIVE PlainKeys(_)
PlainKeys(v) ==
    /\ \A key \in DOMAIN v.object_values_ :
          PlainString(key) /\ PlainKeys(v.object_values_[key])
    /\ \A i \in 1..Len(v.array_values_) : PlainKeys(v.array_values_[i])

\* C8 as stated: a tree without a Number and without a quote or backslash in
\* a string is parsed back from to_string(false) with the same kind and value
\* at every path.
C8_RoundTrip ==
    (/\ pc = "reparsed" /\ ~call.pretty_print /\ result.success
     /\ NoNumber(result.root) /\ PlainValues(result.root)) =>
        reparsed.success /\ reparsed.root = result.root

\* C8, amended: the same, for the trees whose object keys hold no quote and
\* no backslash either.
C8_RoundTripPlainKeys ==
    (/\ pc = "reparsed" /\ ~call.pretty_print /\ result.success
     /\ NoNumber(result.root) /\ PlainValues(result.root)
     /\ PlainKeys(result.root)) =>
        reparsed.success /\ reparsed.root = result.root

C8_Witness ==
    /\ pc = "reparsed"
    /\ ~call.pretty_print
    /\ content = NestedExample
    /\ result.success
    /\ ret = <<"{", "\"", "\"", ":", " ", "n", "u", "l", "l", ",",
               "\"", "a", "\"", ":", " ">>
             \o value_to_string(JSONValue_get(result.root, <<"a">>), 1, FALSE)
             \o <<"}">>
    /\ reparsed.success
    /\ reparsed.root = result.root

\* C9: a number lexeme that is malformed under the grammar (optional '-',
\* digits, optional '.' digits, optional exponent with digits) fails with
\* "Invalid number: <lexeme>"; it is never prefix-parsed.  The lexemes are
\* "-", "-." and every digit run followed by an exponent without digits.
C9_Malformed ==
    {<<"-">>, <<"-", ".">>}
        \cup {t \in Strings(NumberChars, MaxNumLen) :
                /\ NumberEnd(t, 0) = Len(t)
                /\ \E i \in 2..Len(t) :
                      /\ \A j \in 1..(i - 1) : isdigit(t[j])
                      /\ t[i] \in {"e", "E"}
                      /\ SubSeq(t, i + 1, Len(t)) \in {<<>>, <<"+">>, <<"-">>}}

C9_MalformedNumberFails ==
    (pc = "parsed" /\ content \in C9_Malformed) =>
        /\ ~result.success
        /\ result.error_message = "Invalid number: " \o Text(content)

\* C10: a successfully parsed number lexeme is of kind Number if it contains
\* '.', 'e' or 'E' and of kind Integer otherwise; "1" is Integer 1, "1.0" is
\* Number 1.0 and "1e2" is Number 100.0.
C10_IsLexeme(t) ==
    /\ t # <<>>
    /\ isdigit(t[1]) \/ t[1] = "-"
    /\ NumberEnd(t, 0) = Len(t)

C10_NumericKind ==
    pc = "parsed" =>
        /\ (C10_IsLexeme(content) /\ result.success) =>
              get_type(result.root) =
                  IF \E i \in 1..Len(content) : content[i] \in {".", "e", "E"}
                  THEN "Number" ELSE "Integer"
        /\ content = <<"1">> => result.root = JSONValue_int(1)
        /\ content = <<"1", ".", "0">> =>
              result.root = JSONValue_double(IntToDouble(1))
        /\ content = <<"1", "e", "2">> =>
              result.root = JSONValue_double(IntToDouble(100))

C10_Witness ==
    /\ pc = "parsed"
    /\ content = <<"1", "e", "2">>
    /\ result.success
    /\ get_type(result.root) = "Number"
    /\ result.root.double_value_ = IntToDouble(100)

\* The last position of key in the sequence keys.
LastIndex(keys, key) ==
    CHOOSE i \in 1..Len(keys) :
        keys[i] = key /\ \A j \in (i + 1)..Len(keys) : keys[j] # key

\* C11: an object literal in which a key occurs several times parses, the
\* value stored under each key is the value of its last occurrence, and the
\* key appears once in get_keys.
C11_LastOf(keys, items) ==
    /\ result.success
    /\ \A i \in 1..Len(keys) :
          /\ JSONValue_get(result.root, keys[i])
                = parse(items[LastIndex(keys, keys[i])]).root
          /\ Cardinality({j \in 1..Len(JSONValue_get_keys(result.root)) :
                            JSONValue_get_keys(result.root)[j] = keys[i]}) = 1

C11_LastWriteWins ==
    (pc = "parsed" /\ content # <<>> /\ content[1] = "{") =>
        \A n \in 1..MaxElems :
            \A keys \in [1..n -> DocKeys], items \in [1..n -> ScalarTexts] :
                content = ObjectText(keys, items) => C11_LastOf(keys, items)

C11_Witness ==
    /\ pc = "parsed"
    /\ content = ObjectText(<<<<"a">>, <<"a">>>>, <<<<"1">>, Quoted(<<"x">>)>>)
    /\ result.success
    /\ JSONValue_get(result.root, <<"a">>) = JSONValue_string(<<"x">>)
    /\ JSONValue_get_keys(result.root) = <<<<>>, <<"a">>>>

\* The character each escape denotes.
C12_Escapes ==
    [c \in {"\"", "\\", "/", "b", "f", "n", "r", "t"} |->
        CASE c = "b" -> BS [] c = "f" -> "\f" [] c = "n" -> "\n"
          [] c = "r" -> "\r" [] c = "t" -> "\t" [] OTHER -> c]

\* The text of a string literal read from the characters after its opening
\* quote: [ok, val], without ok when the literal is malformed.
RECURSIVE C12_Decode(_, _)
C12_Decode(rest, acc) ==
    IF rest = <<>> THEN [ok |-> FALSE, val |-> <<>>]
    ELSE IF Head(rest) = "\"" THEN [ok |-> TRUE, val |-> acc]
    ELSE IF Head(rest) # "\\" THEN C12_Decode(Tail(rest), Append(acc, Head(rest)))
    ELSE IF Len(rest) < 2 \/ rest[2] \notin DOMAIN C12_Escapes
    THEN [ok |-> FALSE, val |-> <<>>]
    ELSE C12_Decode(Tail(Tail(rest)), Append(acc, C12_Escapes[rest[2]]))

\* C12: a string literal parses to the text between its opening quote and
\* the first unescaped quote, each of the eight escapes replaced by the
\* character it denotes; another character after a backslash ('u' included)
\* or the end of the input before the closing quote makes the parse fail.
C12_StringParsing ==
    (pc = "parsed" /\ content # <<>> /\ content[1] = "\"") =>
        /\ IF C12_Decode(Tail(content), <<>>).ok
           THEN /\ result.success
                /\ result.root = JSONValue_string(C12_Decode(Tail(content), <<>>).val)
           ELSE ~result.success
        /\ (Len(content) >= 3 /\ content[2] = "\\" /\ content[3] = "u") =>
              ~result.success

C12_Witness ==
    /\ pc = "parsed"
    /\ content = <<"\"", "\\", "n", "\"">>
    /\ result.success
    /\ result.root = JSONValue_string(<<"\n">>)

\* The text t begins with the word w.
StartsWith(t, w) == Len(t) >= Len(w) /\ SubSeq(t, 1, Len(w)) = w

\* C13: a value that starts with 't', 'f' or 'n' parses only when the
\* characters at the cursor spell true, false or null exactly, to the Boolean
\* or the Null they name, and the cursor then advances by the length of the
\* literal; any other spelling (tru, fals, nul, nil) makes the parse fail.
C13_Literal(word, value) ==
    StartsWith(content, word) =>
        /\ result.success
        /\ result.root = value
        /\ parse_value(content, 0).pos = Len(word)

C13_ExactLiterals ==
    (pc = "parsed" /\ content # <<>> /\ content[1] \in {"t", "f", "n"}) =>
        /\ C13_Literal(<<"t", "r", "u", "e">>, JSONValue_bool(TRUE))
        /\ C13_Literal(<<"f", "a", "l", "s", "e">>, JSONValue_bool(FALSE))
        /\ C13_Literal(<<"n", "u", "l", "l">>, JSONValue)
        /\ (\A word \in LiteralWords : ~StartsWith(content, word)) =>
              ~result.success

C13_Witness ==
    /\ pc = "parsed"
    /\ content = <<"f", "a", "l", "s", "e", "x">>
    /\ result.success
    /\ result.root = JSONValue_bool(FALSE)
    /\ parse_value(content, 0).pos = 5

\* C14 as stated: when, after leading whitespace, a prefix of the input is one
\* complete value, parse succeeds with that value as root whatever follows.
C14_AnyTrailingContent ==
    pc = "parsed" =>
        \A lead \in {<<>>, <<" ">>}, value \in CompleteValues :
            StartsWith(content, lead \o value) =>
                result.success /\ result.root = parse(value).root

\* The characters that continue a number lexeme after a digit.
C14_Continues(c) == isdigit(c) \/ c \in {".", "e", "E"}

\* C14, amended: the same, unless the value is a number and the character
\* after it continues the number lexeme (a digit, '.', 'e' or 'E').
C14_TrailingContentIgnored ==
    pc = "parsed" =>
        \A lead \in {<<>>, <<" ">>}, value \in CompleteValues :
            (/\ StartsWith(content, lead \o value)
             /\ ~(/\ isdigit(value[1]) \/ value[1] = "-"
                  /\ Len(content) > Len(lead \o value)
                  /\ C14_Continues(content[Len(lead \o value) + 1]))) =>
                result.success /\ result.root = parse(value).root

C14_Witness ==
    /\ pc = "parsed"
    /\ content = <<" ", "1", " ", "x">>
    /\ result.success
    /\ result.root = JSONValue_int(1)

\* The set of the keys of an Object.
KeySet(v) == {JSONValue_get_keys(v)[i] : i \in 1..Len(JSONValue_get_keys(v))}

\* C15: set(key, value) on a value that is not an Object turns it into an
\* Object whose only key is key, of size 1, without the earlier scalar or
\* Array payload; on an Object it inserts or overwrites key and leaves every
\* other key unchanged.  push_back does the same for an Array and appends
\* value as the last element.
C15_Set ==
    /\ get_type(result.root) = "Object"
    /\ JSONValue_get(result.root, call.key) = call.value
    /\ IF get_type(call.receiver) # "Object"
       THEN /\ JSONValue_get_keys(result.root) = <<call.key>>
            /\ size(result.root) = 1
            /\ result.root
                 = [JSONValue EXCEPT !.type_ = "Object",
                                     !.object_values_ = call.key :> call.value]
       ELSE /\ KeySet(result.root) = KeySet(call.receiver) \cup {call.key}
            /\ \A key \in KeySet(call.receiver) \ {call.key} :
                  JSONValue_get(result.root, key) = JSONValue_get(call.receiver, key)

C15_PushBack ==
    /\ get_type(result.root) = "Array"
    /\ at(result.root, size(result.root) - 1) = call.value
    /\ IF get_type(call.receiver) # "Array"
       THEN /\ size(result.root) = 1
            /\ result.root
                 = [JSONValue EXCEPT !.type_ = "Array",
                                     !.array_values_ = <<call.value>>]
       ELSE /\ size(result.root) = size(call.receiver) + 1
            /\ \A i \in 0..(size(call.receiver) - 1) :
                  at(result.root, i) = at(call.receiver, i)

C15_Mutators ==
    pc = "mutated" =>
        /\ call.op = "set" => C15_Set
        /\ call.op = "push_back" => C15_PushBack

\* "x" pushed to the array parsed from [1]
C15_Witness ==
    /\ pc = "mutated"
    /\ call.op = "push_back"
    /\ content = ArrayText(<<<<"1">>>>)
    /\ call.receiver = parse(content).root
    /\ call.value = JSONValue_string(<<"x">>)
    /\ size(result.root) = 2
    /\ at(result.root, 0) = JSONValue_int(1)
    /\ at(result.root, 1) = JSONValue_string(<<"x">>)

\* C16: the read accessors are total: get(key) on a value that is not an
\* Object or for an absent key is Null, at(index) on a value that is not an
\* Array or with index >= size() is Null, and size() is the number of
\* children of an Array or Object and 0 for every other kind.
C16_TotalAccessors ==
    pc = "read" =>
        /\ call.op = "get" =>
              IF get_type(result.root) = "Object"
                    /\ call.key \in DOMAIN result.root.object_values_
              THEN ret = result.root.object_values_[call.key]
              ELSE ret = JSONValue
        /\ call.op = "at" =>
              IF get_type(result.root) = "Array"
                    /\ call.index < Len(result.root.array_values_)
              THEN ret = result.root.array_values_[call.index + 1]
              ELSE ret = JSONValue
        /\ call.op = "size" =>
              ret = CASE get_type(result.root) = "Array" ->
                            Len(result.root.array_values_)
                      [] get_type(result.root) = "Object" ->
                            Len(JSONValue_get_keys(result.root))
                      [] OTHER -> 0

\* at(3) on the array parsed from [1,2,3]
C16_Witness ==
    /\ pc = "read"
    /\ call.op = "at"
    /\ content = ArrayText(<<<<"1">>, <<"2">>, <<"3">>>>)
    /\ result = parse(content)
    /\ size(result.root) = 3
    /\ call.index = 3
    /\ ret = JSONValue

\* C17: as_bool of a String is false only for "", "false" and "0"; of an
\* Integer and a Number it is the test for nonzero; of a Boolean the value
\* itself; of Null, Array and Object false.
C17_AsBool ==
    (pc = "read" /\ call.op = "as_bool") =>
        ret = CASE get_type(result.root) = "String" ->
                      result.root.string_value_
                          \notin {<<>>, <<"f", "a", "l", "s", "e">>, <<"0">>}
                [] get_type(result.root) = "Integer" -> result.root.int_value_ # 0
                [] get_type(result.root) = "Number" ->
                      result.root.double_value_.mant # 0
                [] get_type(result.root) = "Boolean" -> result.root.bool_value_
                [] get_type(result.root) \in {"Null", "Array", "Object"} -> FALSE

\* as_bool of the String "0"
C17_Witness ==
    /\ pc = "read"
    /\ call.op = "as_bool"
    /\ result.root = JSONValue_string(<<"0">>)
    /\ ret = FALSE

\* The int i is the double d truncated toward zero.
C18_TruncatesTo(d, i) ==
    IF d.mant = 0 THEN i = 0
    ELSE IF d.exp <= 0
    THEN i = (IF d.neg THEN -1 ELSE 1)
                * (IF -d.exp >= NumDigits(d.mant) THEN 0
                   ELSE d.mant \div Pow10(-d.exp))
    ELSE /\ i \notin {INT_MIN, 0}
         /\ (i < 0) = d.neg
         /\ Normalise(IF i < 0 THEN -i ELSE i, 0) = [mant |-> d.mant, exp |-> d.exp]

\* C18: as_int of a String is its value parsed as an integer, and 0 when it
\* does not parse; of an Integer the value itself; of a Number the value
\* truncated toward zero; of a Boolean 0 or 1; of Null, Array and Object 0.
C18_AsInt ==
    (pc = "read" /\ call.op = "as_int") =>
        CASE get_type(result.root) = "String" ->
                ret = IF stoi(result.root.string_value_).ok
                      THEN stoi(result.root.string_value_).val ELSE 0
          [] get_type(result.root) = "Integer" -> ret = result.root.int_value_
          [] get_type(result.root) = "Number" ->
                C18_TruncatesTo(result.root.double_value_, ret)
          [] get_type(result.root) = "Boolean" ->
                ret = IF result.root.bool_value_ THEN 1 ELSE 0
          [] get_type(result.root) \in {"Null", "Array", "Object"} -> ret = 0

C20_DocumentedPaths ==
    (/\ pc = "queried"
     /\ content = ReadmeXML
     /\ result.success
     /\ call.op = "get_value") =>
        /\ call.path = <<"c", "o", "n", "f", "i", "g", ".", "d", "a", "t", "a", "b", "a", "s", "e", ".", "h", "o", "s", "t">>
              => ret = <<"l", "o", "c", "a", "l", "h", "o", "s", "t">>
        /\ call.path = <<"c", "o", "n", "f", "i", "g", ".", "d", "a", "t", "a", "b", "a", "s", "e", ".", "c", "r", "e", "d", "e", "n", "t", "i", "a", "l", "s", ".", "u", "s", "e", "r", "n", "a", "m", "e">>
              => ret = <<"a", "d", "m", "i", "n">>

\* C21: INI comments and blank lines are ignored: the text without every line
\* whose first character that is not white space is '#' or ';' and without
\* every line of white space only is parsed to the same success flag, the
\* same error message and the same sections map as the text itself.
C21_CommentsAndBlankLinesIgnored ==
    (pc = "reparsed" /\ call.op = "remove_ignored_lines") =>
        /\ reparsed.success = result.success
        /\ reparsed.error_message = result.error_message
        /\ reparsed.sections = result.sections

\* A comment before a section with one key: the comment line is removed and
\* both texts give the section.
C21_Witness ==
    /\ pc = "reparsed"
    /\ call.op = "remove_ignored_lines"
    /\ content = JoinLines(<<<<"#", "c">>, <<"[", "s", "]">>, <<"a", "=", "b">>>>)
    /\ ret = JoinLines(<<<<"[", "s", "]">>, <<"a", "=", "b">>>>)
    /\ result.success
    /\ DOMAIN result.sections = {<<"s">>}
    /\ result.sections[<<"s">>][<<"a">>] = <<"b">>
    /\ reparsed = result

\* C22: the cursor of the JSON parser is bounded and never moves back: every
\* step of a parse (a call of parse_value, parse_object, parse_array,
\* parse_string, parse_number or skip_whitespace, or an iteration of one of
\* their loops) that is entered with the cursor inside 0..length(input)
\* leaves it, on return and on failure, inside 0..length(input) and not
\* before the position it was entered at.
C22_CursorForwardAndBounded ==
    pc = "stepped" =>
        /\ 0 <= call.pos
        /\ call.pos <= ret.pos
        /\ ret.pos <= Len(content)

\* The steps of the parse of [1,2,3]: parse_array entered at 0 leaves the
\* cursor at the end of the text.
C22_Witness ==
    /\ pc = "stepped"
    /\ content = ArrayText(<<<<"1">>, <<"2">>, <<"3">>>>)
    /\ result.success
    /\ call = [op |-> "parse_array", pos |-> 0]
    /\ ret.ok
    /\ ret.pos = Len(content)

\* C27: the parse terminates: every iteration of the loops of parse_object,
\* parse_array, parse_string, parse_number and skip_whitespace, and every
\* call of parse_value that returns, moves the cursor forward by at least one
\* character or ends with a failure, and the cursor never passes the end of
\* the text, so the steps of a parse are bounded by its length.
C27_EveryStepAdvances ==
    (/\ pc = "stepped"
     /\ call.op \in {"parse_value", "parse_object iteration", "parse_array iteration",
                     "parse_string iteration", "parse_number iteration",
                     "skip_whitespace iteration"}
     /\ ret.ok) =>
        /\ ret.pos >= call.pos + 1
        /\ ret.pos <= Len(content)

\* An iteration of the loop of parse_array that goes on to the next one: the
\* element 1 of [1,2,3] and the comma after it are consumed.
C27_Witness ==
    /\ pc = "stepped"
    /\ content = ArrayText(<<<<"1">>, <<"2">>, <<"3">>>>)
    /\ call = [op |-> "parse_array iteration", pos |-> 1]
    /\ ret.ok
    /\ Continues(ret)
    /\ ret.pos = 3

\* The length of the run of spaces of text that starts at the 1-based index i.
RECURSIVE SpaceRun(_, _)
SpaceRun(text, i) ==
    IF i <= Len(text) /\ text[i] = " " THEN 1 + SpaceRun(text, i + 1) ELSE 0

\* Is the character before the run of spaces that ends before index i a
\* newline?
RECURSIVE StartsLine(_, _)
StartsLine(text, i) ==
    /\ i > 1
    /\ IF text[i - 1] = " " THEN StartsLine(text, i - 1) ELSE text[i - 1] = "\n"

\* The layout of text[i..], read at nesting level depth, inside a string
\* literal or not: outside the string literals a newline follows every '{',
\* '[' and ',', every line is indented by two spaces for each level that is
\* open, a closing bracket stands on a line of its own at the level of the line
\* that opened it, and a newline is written nowhere else.
RECURSIVE PrettyLayout(_, _, _, _)
PrettyLayout(text, i, depth, in_string) ==
    IF i > Len(text) THEN depth = 0 /\ ~in_string
    ELSE LET c == text[i]
             next == IF i < Len(text) THEN text[i + 1] ELSE ""
         IN  CASE in_string -> PrettyLayout(text, i + 1, depth, c # "\"")
               [] ~in_string /\ c = "\"" -> PrettyLayout(text, i + 1, depth, TRUE)
               [] ~in_string /\ c \in {"{", "["} ->
                     next = "\n" /\ PrettyLayout(text, i + 1, depth + 1, FALSE)
               [] ~in_string /\ c = "," ->
                     next = "\n" /\ PrettyLayout(text, i + 1, depth, FALSE)
               [] ~in_string /\ c \in {"}", "]"} ->
                     /\ StartsLine(text, i)
                     /\ depth > 0
                     /\ PrettyLayout(text, i + 1, depth - 1, FALSE)
               [] ~in_string /\ c = "\n" ->
                     LET run == SpaceRun(text, i + 1)
                         first == IF i + run < Len(text) THEN text[i + run + 1] ELSE ""
                     IN  /\ (i > 1 /\ text[i - 1] \in {"{", "[", ","}) \/ first \in {"}", "]"}
                         /\ run = 2 * (IF first \in {"}", "]"} THEN depth - 1 ELSE depth)
                         /\ PrettyLayout(text, i + 1, depth, FALSE)
               [] OTHER -> PrettyLayout(text, i + 1, depth, FALSE)

\* The two texts of a tree parse to equal trees, and the pretty one is laid
\* out with two spaces for each level.
C23_SameTreeOtherLayout ==
    LET other == parse(to_string(result, ~call.pretty_print))
        pretty == to_string(result, TRUE)
    IN  /\ reparsed.success
        /\ other.success
        /\ other.root = reparsed.root
        /\ PrettyLayout(pretty, 1, 0, FALSE)

\* C23 as stated: for a tree of a successful parse whose strings hold no quote
\* and no backslash, the texts of to_string(true) and to_string(false) both
\* parse, to equal trees, and the pretty text has a newline after each
\* structural separator and two spaces of indentation for each nesting level.
C23_PrettyLayoutOnly ==
    (/\ pc = "reparsed" /\ result.success /\ PlainValues(result.root)) =>
        C23_SameTreeOtherLayout

\* C23, amended: the same, for the trees whose object keys hold no quote and
\* no backslash either.
C23_PrettyLayoutOnlyPlainKeys ==
    (/\ pc = "reparsed" /\ result.success /\ PlainValues(result.root)
     /\ PlainKeys(result.root)) =>
        C23_SameTreeOtherLayout

\* The nested example, written pretty and parsed back: the innermost member
\* is indented by six spaces.
C23_Witness ==
    /\ pc = "reparsed"
    /\ call.pretty_print
    /\ content = NestedExample
    /\ result.success
    /\ \E i \in 1..Len(ret) :
          /\ ret[i] = "\n"
          /\ SpaceRun(ret, i + 1) = 6
          /\ SubSeq(ret, i + 7, i + 12) = <<"\"", "c", "\"", ":", " ", "1">>
    /\ reparsed.success
    /\ reparsed.root = parse(to_string(result, FALSE)).root

\* No space, tab, newline or carriage return stands in text[i..] outside the
\* string literals.
RECURSIVE NoSpaceAroundTokens(_, _, _)
NoSpaceAroundTokens(text, i, in_string) ==
    IF i > Len(text) THEN TRUE
    ELSE IF in_string THEN NoSpaceAroundTokens(text, i + 1, text[i] # "\"")
    ELSE /\ ~isspace(text[i])
         /\ NoSpaceAroundTokens(text, i + 1, text[i] = "\"")

\* C24: to_string(false) writes one line in which no space, tab or newline
\* stands outside the string contents: between the scalars there are only the
\* brackets, ',' and ':'.  (Stated for the trees whose strings and keys hold no
\* quote, so that the string literals of the text are told by their quotes.)
C24_CompactNoSpace ==
    (/\ pc = "serialized" /\ ~call.pretty_print /\ result.success
     /\ PlainValues(result.root) /\ PlainKeys(result.root)) =>
        NoSpaceAroundTokens(ret, 1, FALSE)

\* The cursor after the string literal that opens at pos, or npos when it is
\* not closed: a backslash takes the character after it along.
RECURSIVE StringLiteralEnd(_, _)
StringLiteralEnd(text, pos) ==
    IF pos >= Len(text) THEN npos
    ELSE IF text[pos + 1] = "\"" THEN pos + 1
    ELSE IF text[pos + 1] = "\\" THEN StringLiteralEnd(text, pos + 2)
    ELSE StringLiteralEnd(text, pos + 1)

\* The cursor after the token of the JSON grammar that starts at pos (a
\* bracket, ',' or ':', a string literal, a number lexeme, true, false or
\* null), or npos when none starts there.
TokenEnd(text, pos) ==
    LET c == text[pos + 1] IN
    CASE c \in {"{", "}", "[", "]", ",", ":"} -> pos + 1
      [] c = "\"" -> StringLiteralEnd(text, pos + 1)
      [] isdigit(c) \/ c = "-" -> NumberEnd(text, pos)
      [] c \in {"t", "n"} /\ substr(text, pos, 4) \in {<<"t", "r", "u", "e">>,
                                                         <<"n", "u", "l", "l">>} -> pos + 4
      [] c = "f" /\ substr(text, pos, 5) = <<"f", "a", "l", "s", "e">> -> pos + 5
      [] OTHER -> npos

\* The positions at which the tokens of text[pos..] start, up to the first
\* character that starts none.
RECURSIVE TokenStarts(_, _)
TokenStarts(text, pos) ==
    IF pos >= Len(text) THEN {}
    ELSE IF isspace(text[pos + 1]) THEN TokenStarts(text, pos + 1)
    ELSE IF TokenEnd(text, pos) = npos THEN {}
    ELSE {pos} \cup TokenStarts(text, TokenEnd(text, pos))

\* C25: a run of spaces, tabs, newlines and carriage returns written in
\* before the first token or between two tokens of a text that parses leaves
\* the parse successful and its tree the same.
C25_WhitespaceInsignificant ==
    (/\ pc = "spaced" /\ result.success
     /\ call.pos \in TokenStarts(content, 0)) =>
        reparsed.success /\ reparsed.root = result.root

\* {"a":1} with a carriage return and a newline before the 1
C25_Witness ==
    /\ pc = "spaced"
    /\ content = ObjectText(<<<<"a">>>>, <<<<"1">>>>)
    /\ result.success
    /\ call.pos = 5
    /\ call.pos \in TokenStarts(content, 0)
    /\ ret = <<"{", "\"", "a", "\"", ":", "\r", "\n", "1", "}">>
    /\ reparsed.success
    /\ reparsed.root = result.root

C28_AfterSet ==
    /\ size(result.root)
          = IF get_type(call.receiver) = "Object"
            THEN size(call.receiver) + (IF call.key \in KeySet(call.receiver) THEN 0 ELSE 1)
            ELSE 1
    /\ KeySet(result.root)
          = (IF get_type(call.receiver) = "Object" THEN KeySet(call.receiver) ELSE {})
                \cup {call.key}
    /\ Len(JSONValue_get_keys(result.root)) = size(result.root)
    /\ \A index \in Indices : at(result.root, index) = JSONValue

C28_AfterPushBack ==
    /\ size(result.root)
          = IF get_type(call.receiver) = "Array" THEN size(call.receiver) + 1 ELSE 1
    /\ \A index \in Indices :
          at(result.root, index)
            = IF index = size(result.root) - 1 THEN call.value
              ELSE IF get_type(call.receiver) = "Array" THEN at(call.receiver, index)
              ELSE JSONValue
    /\ JSONValue_get_keys(result.root) = <<>>
    /\ \A key \in ValueKeys \cup {<<>>} :
          /\ JSONValue_get(result.root, key) = JSONValue
          /\ ~has_key(result.root, key)

C28_OnlyCurrentKind ==
    pc = "mutated" =>
        /\ call.op = "set" => C28_AfterSet
        /\ call.op = "push_back" => C28_AfterPushBack

\* The array parsed from [1,2,3], turned into an Object by a set and back into
\* an Array by push_back("x"): "x" is its only element.
C28_Witness ==
    /\ pc = "mutated"
    /\ content = ArrayText(<<<<"1">>, <<"2">>, <<"3">>>>)
    /\ call.op = "push_back"
    /\ get_type(call.receiver) = "Object"
    /\ call.value = JSONValue_string(<<"x">>)
    /\ size(result.root) = 1
    /\ at(result.root, 0) = call.value
    /\ at(result.root, 1) = JSONValue

\* An integer lexeme: an optional '-' and one digit or more, nothing else.
C29_IsIntegerLexeme(t) ==
    LET digits == IF t # <<>> /\ t[1] = "-" THEN Tail(t) ELSE t
    IN  digits # <<>> /\ \A i \in 1..Len(digits) : isdigit(digits[i])

\* The sign of an integer lexeme, and its magnitude as 10 * hi + lo, lo being
\* its last digit.
C29_Parts(t) ==
    LET neg == t[1] = "-"
        sig == StripZeros(IF neg THEN Tail(t) ELSE t)
    IN  [neg |-> neg, len |-> Len(sig),
         hi |-> IF Len(sig) > 10 THEN 0 ELSE DigitsValue(SubSeq(sig, 1, Len(sig) - 1)),
         lo |-> IF sig = <<>> THEN 0 ELSE DigitVal(sig[Len(sig)])]

\* Is the value an integer lexeme denotes inside [-2^31, 2^31 - 1]?
C29_InRange(t) ==
    LET p == C29_Parts(t)
    IN  /\ p.len <= 10
        /\ p.hi <= INT_MAX \div 10
        /\ IF p.neg THEN -10 * p.hi >= INT_MIN + p.lo ELSE 10 * p.hi <= INT_MAX - p.lo

\* The value of a lexeme inside the range.
C29_Value(t) ==
    LET p == C29_Parts(t)
    IN  IF p.neg THEN -10 * p.hi - p.lo ELSE 10 * p.hi + p.lo

\* C29: an integer lexeme outside [-2^31, 2^31 - 1] makes the parse fail with
\* "Invalid number: <lexeme>" (it is not stored wrapped, cut or as a Number),
\* and one inside is stored as the Integer of exactly its value.
C29_IntegerRange ==
    (pc = "parsed" /\ C29_IsIntegerLexeme(content)) =>
        IF C29_InRange(content)
        THEN /\ result.success
             /\ result.root = JSONValue_int(C29_Value(content))
        ELSE /\ ~result.success
             /\ result.error_message = "Invalid number: " \o Text(content)
             /\ result.root = JSONValue

\* 2147483648 is refused
C29_Witness ==
    /\ pc = "parsed"
    /\ content = <<"2", "1", "4", "7", "4", "8", "3", "6", "4", "8">>
    /\ ~result.success
    /\ result.error_message = "Invalid number: 2147483648"

\* C30: the sections of a successful parse, written by to_string and parsed
\* again, are the sections they were: the parse of the text succeeds and has
\* the same section names, the same keys and the same value under every key.
C30_RoundTrip ==
    (pc = "reparsed" /\ call.op = "to_string" /\ result.success) =>
        /\ reparsed.success
        /\ reparsed.sections = result.sections

====
